---- MODULE Spec2Model ----
(***************************************************************************)
(* Audiobookshelf download CLI: the catalog reconciliation engine          *)
(* (src/server_diff.py) and the download orchestrator                      *)
(* (src/audiobookshelf_downloader.py).                                      *)
(*                                                                         *)
(* Strings are sequences of characters; a character is a one-character     *)
(* TLA+ string (three characters outside ASCII carry a name: "NBSP",       *)
(* "ENDASH", "RSQUO").  Regular expressions of the source are translated   *)
(* to operators that compute the span Python's backtracking matcher finds. *)
(***************************************************************************)
EXTENDS Integers, Sequences, FiniteSets, TLC

(***************************************************************************)
(* Characters and character classes (Python re: \s, \d, \w, [A-Za-z]).     *)
(***************************************************************************)
LowerLetters ==
  {"a","b","c","d","e","f","g","h","i","j","k","l","m",
   "n","o","p","q","r","s","t","u","v","w","x","y","z"}

UpperLetters ==
  {"A","B","C","D","E","F","G","H","I","J","K","L","M",
   "N","O","P","Q","R","S","T","U","V","W","X","Y","Z"}

LowerOfUpper ==
  [c \in UpperLetters |->
     CASE c = "A" -> "a" [] c = "B" -> "b" [] c = "C" -> "c" [] c = "D" -> "d"
       [] c = "E" -> "e" [] c = "F" -> "f" [] c = "G" -> "g" [] c = "H" -> "h"
       [] c = "I" -> "i" [] c = "J" -> "j" [] c = "K" -> "k" [] c = "L" -> "l"
       [] c = "M" -> "m" [] c = "N" -> "n" [] c = "O" -> "o" [] c = "P" -> "p"
       [] c = "Q" -> "q" [] c = "R" -> "r" [] c = "S" -> "s" [] c = "T" -> "t"
       [] c = "U" -> "u" [] c = "V" -> "v" [] c = "W" -> "w" [] c = "X" -> "x"
       [] c = "Y" -> "y" [] c = "Z" -> "z"]

IsSpace(c) == c \in {" ", "\n", "\t"}
IsDigit(c) == c \in {"0","1","2","3","4","5","6","7","8","9"}
IsLetter(c) == c \in LowerLetters \/ c \in UpperLetters
IsWord(c) == IsLetter(c) \/ IsDigit(c) \/ c = "_"

\* str.lower() after unicodedata.normalize('NFKD', .), on the model's characters
LowerChar(c) == IF c \in UpperLetters THEN LowerOfUpper[c] ELSE c
Lower(s) == [i \in 1..Len(s) |-> LowerChar(s[i])]

\* re.sub(r'[\u00A0\u2000-\u200B\u2060\uFEFF]', ' ', .) (NFKD already maps U+00A0)
CanonSpaceChar(c) == IF c = "NBSP" THEN " " ELSE c
\* re.sub(r'[\u2010-\u2015\u2212]', '-', .)
CanonDashChar(c) == IF c = "ENDASH" THEN "-" ELSE c
\* re.sub(r'[\u2018\u2019\u201C\u201D]', "'", .)
CanonQuoteChar(c) == IF c = "RSQUO" THEN "'" ELSE c

(***************************************************************************)
(* String helpers (str.strip, str.split, ' '.join, 'x' in s).              *)
(***************************************************************************)
Drop(s, n) == SubSeq(s, n + 1, Len(s))
Take(s, n) == SubSeq(s, 1, n)

\* number of whitespace characters of s from position i on
RECURSIVE WsRun(_, _)
WsRun(s, i) == IF i <= Len(s) /\ IsSpace(s[i]) THEN 1 + WsRun(s, i + 1) ELSE 0

\* number of whitespace characters of s that end just before position i
RECURSIVE WsRunBack(_, _)
WsRunBack(s, i) == IF i > 1 /\ IsSpace(s[i - 1]) THEN 1 + WsRunBack(s, i - 1) ELSE 0

AllSpace(s) == \A i \in 1..Len(s) : IsSpace(s[i])

Strip(s) ==
  IF AllSpace(s) THEN <<>>
  ELSE SubSeq(s, 1 + WsRun(s, 1), Len(s) - WsRunBack(s, Len(s) + 1))

StartsAt(s, i, sub) ==
  /\ i >= 1
  /\ i + Len(sub) - 1 <= Len(s)
  /\ \A k \in 1..Len(sub) : s[i + k - 1] = sub[k]

Contains(s, sub) == \E i \in 1..(Len(s) - Len(sub) + 1) : StartsAt(s, i, sub)

HasChar(s, c) == \E i \in 1..Len(s) : s[i] = c

\* str.split(sep): the pieces between the non-overlapping occurrences of sep,
\* found from the left
RECURSIVE SplitFrom(_, _, _, _)
SplitFrom(s, sep, i, start) ==
  IF i + Len(sep) - 1 > Len(s) THEN << SubSeq(s, start, Len(s)) >>
  ELSE IF StartsAt(s, i, sep)
       THEN << SubSeq(s, start, i - 1) >> \o SplitFrom(s, sep, i + Len(sep), i + Len(sep))
       ELSE SplitFrom(s, sep, i + 1, start)

Split(s, sep) == SplitFrom(s, sep, 1, 1)

\* str.split() with no argument: the maximal runs of non-whitespace
RECURSIVE WordsFrom(_, _)
WordsFrom(s, i) ==
  IF i > Len(s) THEN <<>>
  ELSE IF IsSpace(s[i]) THEN WordsFrom(s, i + 1)
  ELSE LET e == CHOOSE j \in i..Len(s) :
                  /\ \A k \in i..j : ~IsSpace(s[k])
                  /\ (j = Len(s) \/ IsSpace(s[j + 1]))
       IN << SubSeq(s, i, e) >> \o WordsFrom(s, e + 1)

Words(s) == WordsFrom(s, 1)

\* ' '.join(words)
RECURSIVE JoinSp(_)
JoinSp(ws) ==
  IF Len(ws) = 0 THEN <<>>
  ELSE IF Len(ws) = 1 THEN ws[1]
  ELSE ws[1] \o <<" ">> \o JoinSp(Tail(ws))

\* ' '.join(s.split())
CollapseWs(s) == JoinSp(Words(s))

\* re.sub(r'\s+', ' ', s)
RECURSIVE CollapseRunsFrom(_, _)
CollapseRunsFrom(s, i) ==
  IF i > Len(s) THEN <<>>
  ELSE IF IsSpace(s[i]) THEN <<" ">> \o CollapseRunsFrom(s, i + WsRun(s, i))
  ELSE << s[i] >> \o CollapseRunsFrom(s, i + 1)

CollapseRuns(s) == CollapseRunsFrom(s, 1)

\* re.sub(r'[^\w\s]', '', s)
RemovePunct(s) == SelectSeq(s, LAMBDA c : IsWord(c) \/ IsSpace(c))

\* \b at the boundary just before position i (between s[i-1] and s[i])
WordBoundary(s, i) ==
  LET before == i > 1 /\ i - 1 <= Len(s) /\ IsWord(s[i - 1])
      after  == i >= 1 /\ i <= Len(s) /\ IsWord(s[i])
  IN before # after

Min(S) == CHOOSE x \in S : \A y \in S : x <= y
Max(S) == CHOOSE x \in S : \A y \in S : x >= y

(***************************************************************************)
(* ServerDiff._normalize_title, step by step.                              *)
(***************************************************************************)
\* lines 78-86: NFKD, lower, spaces, dashes, quotes
TitleCanon(s) ==
  [i \in 1..Len(s) |-> CanonQuoteChar(CanonDashChar(CanonSpaceChar(LowerChar(s[i]))))]

\* lines 90-97: keep the first non-empty line
TitleFirstLine(s) ==
  IF ~HasChar(s, "\n") THEN s
  ELSE LET lines == Split(s, <<"\n">>)
           nonempty == {k \in 1..Len(lines) : Strip(lines[k]) # <<>>}
       IN IF nonempty = {} THEN s ELSE Strip(lines[Min(nonempty)])

\* the "(" positions from which \([^)]*kw[^)]*\)\s*$ matches
ParenTailStarts(s, kw) ==
  {p \in 1..Len(s) :
     /\ s[p] = "("
     /\ \E q \in (p + 1)..Len(s) :
          /\ s[q] = ")"
          /\ \A k \in (p + 1)..(q - 1) : s[k] # ")"
          /\ Contains(SubSeq(s, p + 1, q - 1), kw)
          /\ AllSpace(SubSeq(s, q + 1, Len(s)))}

\* re.sub(r'\s*\([^)]*kw[^)]*\)\s*$', '', s)
StripTrailingParen(s, kw) ==
  LET ps == ParenTailStarts(s, kw)
  IN IF ps = {} THEN s
     ELSE LET p == Min(ps) IN Take(s, p - WsRunBack(s, p) - 1)

\* lines 102-103
TitleStripEdition(s) ==
  StripTrailingParen(StripTrailingParen(s, <<"e","d","i","t","i","o","n">>),
                     <<"v","e","r","s","i","o","n">>)

\* lines 107-108
TitleStripColon(s) ==
  IF HasChar(s, ":") THEN Strip(Split(s, <<":">>)[1]) ELSE s

SubtitleKeywords ==
  { <<"s","t","o","r","y">>, <<"n","o","v","e","l">>, <<"s","e","r","i","e","s">>,
    <<"t","a","l","e">>, <<"b","o","o","k">>, <<"e","d","i","t","i","o","n">> }

\* lines 114-123
TitleStripDashSubtitle(s) ==
  IF ~Contains(s, <<" ","-"," ">>) THEN s
  ELSE LET parts == Split(s, <<" ","-"," ">>)
       IN IF Len(parts) # 2 THEN s
          ELSE IF \/ Len(Words(parts[2])) >= 2
                  \/ \E kw \in SubtitleKeywords : Contains(Lower(Strip(parts[2])), kw)
               THEN Strip(parts[1])
               ELSE s

\* line 127
TitleStripParen(s) == StripTrailingParen(s, <<>>)

RECURSIVE DigitRun(_, _)
DigitRun(s, i) == IF i <= Len(s) /\ IsDigit(s[i]) THEN 1 + DigitRun(s, i + 1) ELSE 0

\* \d+\b\s* with d digits at n: the end (exclusive) of the match, 0 if none
NumberAt(s, n, d) ==
  IF d >= 1 /\ WordBoundary(s, n + d) THEN n + d + WsRun(s, n + d) ELSE 0

NumberFrom(s, n) == NumberAt(s, n, DigitRun(s, n))

\* \s+\d+\b\s* (sep) or \d+\b\s* at k2, where w spaces follow k2
NumberingAfterDot(s, k2, w, sep) ==
  IF sep /\ w = 0 THEN 0 ELSE NumberFrom(s, IF sep THEN k2 + w ELSE k2)

NumberingAfterKw(s, k2, sep) == NumberingAfterDot(s, k2, WsRun(s, k2), sep)

\* \bkw\.?\s+\d+\b\s* at j.  wb: the \b before kw; dot: the optional period;
\* sep: the \s+ between kw and the number (absent for "#")
NumberingAt(s, j, kw, wb, dot, sep) ==
  IF StartsAt(s, j, kw) /\ (wb => WordBoundary(s, j))
  THEN NumberingAfterKw(s, IF dot /\ j + Len(kw) <= Len(s) /\ s[j + Len(kw)] = "."
                           THEN j + Len(kw) + 1 ELSE j + Len(kw), sep)
  ELSE 0

\* The end (exclusive) of the match of \s*\bkw\.?\s+\d+\b\s* that starts at i,
\* 0 when there is none
NumberingMatchEnd(s, i, kw, wb, dot, sep) ==
  NumberingAt(s, i + WsRun(s, i), kw, wb, dot, sep)

\* re.sub of one numbering pattern: every non-overlapping match, from the left;
\* e is the end of the match at i
RECURSIVE RemoveNumberingFrom(_, _, _, _, _, _)
RemoveNumberingStep(s, i, e, kw, wb, dot, sep) ==
  IF e > 0 THEN RemoveNumberingFrom(s, e, kw, wb, dot, sep)
  ELSE << s[i] >> \o RemoveNumberingFrom(s, i + 1, kw, wb, dot, sep)

RemoveNumberingFrom(s, i, kw, wb, dot, sep) ==
  IF i > Len(s) THEN <<>>
  ELSE RemoveNumberingStep(s, i, NumberingMatchEnd(s, i, kw, wb, dot, sep), kw, wb, dot, sep)

RemoveNumbering(s, kw, wb, dot, sep) == RemoveNumberingFrom(s, 1, kw, wb, dot, sep)

\* lines 130-136
TitleStripNumbering(s) ==
  RemoveNumbering(
    RemoveNumbering(
      RemoveNumbering(
        RemoveNumbering(
          RemoveNumbering(
            RemoveNumbering(
              RemoveNumbering(s, <<"b","o","o","k">>, TRUE, FALSE, TRUE),
              <<"b","k">>, TRUE, FALSE, TRUE),
            <<"#">>, FALSE, FALSE, FALSE),
          <<"v","o","l","u","m","e">>, TRUE, FALSE, TRUE),
        <<"v","o","l">>, TRUE, TRUE, TRUE),
      <<"p","a","r","t">>, TRUE, FALSE, TRUE),
    <<"e","p","i","s","o","d","e">>, TRUE, FALSE, TRUE)

\* \bword\b occurs in s from position lo on
HasWordFrom(s, lo, word) ==
  \E i \in lo..(Len(s) - Len(word) + 1) :
     StartsAt(s, i, word) /\ WordBoundary(s, i) /\ WordBoundary(s, i + Len(word))

\* line 140: re.sub(r'\s*-\s*[^-]*\bseries\b[^-]*$', '', s)
TitleStripSeriesSuffix(s) ==
  LET dashes == {p \in 1..Len(s) : s[p] = "-"}
  IN IF dashes = {} THEN s
     ELSE LET p == Max(dashes)
          IN IF HasWordFrom(s, p + 1, <<"s","e","r","i","e","s">>)
             THEN Take(s, p - WsRunBack(s, p) - 1)
             ELSE s

\* the position of the "-" of the first " - " that directly follows a
\* non-empty run of characters of class ok starting at position lo; 0 if none
PrefixDash(s, lo, ok(_)) ==
  LET bad == {k \in lo..Len(s) : ~ok(s[k])}
  IN IF bad = {} THEN 0
     ELSE LET k == Min(bad)
          IN IF /\ s[k] = "-"
                /\ k - 2 >= lo
                /\ s[k - 1] = " "
                /\ k + 1 <= Len(s) /\ s[k + 1] = " "
             THEN k ELSE 0

IsNameChar(c) == c \in LowerLetters \/ c \in UpperLetters \/ c = "." \/ IsSpace(c)
IsMiddleChar(c) == c \in LowerLetters \/ c \in UpperLetters \/ IsSpace(c)

\* lines 145-148: re.match(r'^[A-Za-z\.\s]+ - (?:[A-Za-z\s]+ - )?(.+)$', s)
TitleStripAuthorPrefix(s) ==
  LET k1 == PrefixDash(s, 1, IsNameChar)
  IN IF k1 = 0 \/ HasChar(s, "\n") THEN s
     ELSE LET k2 == PrefixDash(s, k1 + 2, IsMiddleChar)
          IN IF k2 # 0 /\ k2 + 2 <= Len(s) THEN Drop(s, k2 + 1)
             ELSE IF k1 + 2 <= Len(s) THEN Drop(s, k1 + 1)
             ELSE s

\* the end (exclusive) of art\s+ at position j, 0 if it does not match there
ArticleEnd(s, j, art) ==
  IF StartsAt(s, j, art) /\ WsRun(s, j + Len(art)) >= 1
  THEN j + Len(art) + WsRun(s, j + Len(art))
  ELSE 0

\* line 151: re.sub(r'^\s*(the|a|an)\s+', '', s)
\* the end (exclusive) of (the|a|an)\s+ at position j, 0 if it does not match
AnyArticleEnd(s, j) ==
  IF ArticleEnd(s, j, <<"t","h","e">>) > 0 THEN ArticleEnd(s, j, <<"t","h","e">>)
  ELSE IF ArticleEnd(s, j, <<"a">>) > 0 THEN ArticleEnd(s, j, <<"a">>)
  ELSE ArticleEnd(s, j, <<"a","n">>)

DropMatch(s, e) == IF e > 0 THEN Drop(s, e - 1) ELSE s

TitleStripArticle(s) == DropMatch(s, AnyArticleEnd(s, 1 + WsRun(s, 1)))

_normalize_title(title) ==
  CollapseWs(RemovePunct(
    TitleStripArticle(TitleStripAuthorPrefix(
      TitleStripSeriesSuffix(TitleStripNumbering(
        TitleStripParen(TitleStripDashSubtitle(
          TitleStripColon(TitleStripEdition(
            TitleFirstLine(TitleCanon(title))))))))))))

(***************************************************************************)
(* ServerDiff._normalize_author, step by step.                             *)
(***************************************************************************)
\* lines 167-174: NFKD, lower, spaces, dashes
AuthorCanon(s) == [i \in 1..Len(s) |-> CanonDashChar(CanonSpaceChar(LowerChar(s[i])))]

GenerationalSuffixes ==
  { <<"j","r">>, <<"j","r",".">>, <<"s","r">>, <<"s","r",".">>, <<"i","i">>, <<"i","i","i">>, <<"i","v">> }

\* \s*(jr\.?|sr\.?|iii?|iv)\s*$ matches from position i
SuffixMatchesAt(s, i) ==
  LET j == i + WsRun(s, i)
  IN \E suf \in GenerationalSuffixes :
        StartsAt(s, j, suf) /\ AllSpace(Drop(s, j + Len(suf) - 1))

\* line 177: re.sub(r'\s*(jr\.?|sr\.?|iii?|iv)\s*$', '', s)
StripGenerationalSuffix(s) ==
  LET starts == {i \in 1..Len(s) : SuffixMatchesAt(s, i)}
  IN IF starts = {} THEN s ELSE Take(s, Min(starts) - 1)

ContributionWords ==
  { <<"f","o","r","e","w","o","r","d">>, <<"f","o","r","e","w","a","r","d">>, <<"i","n","t","r","o","d","u","c","t","i","o","n">>, <<"p","r","e","f","a","c","e">>, <<"a","f","t","e","r","w","o","r","d">> }
CreditWords == { <<"a","d","a","p","t","a","t","i","o","n">>, <<"n","a","r","r","a","t","o","r">>, <<"r","e","a","d","e","r">> }
WriterWords == { <<"a","u","t","h","o","r">>, <<"w","r","i","t","e","r">> }

ContainsAny(s, kws) == \E kw \in kws : Contains(s, kw)

\* lines 216-226: the known primary author of a pair, <<>> when there is none
KnownPrimary(first, second) ==
  LET author_set == {Strip(Lower(first)), Strip(Lower(second))}
  IN IF <<"c","h","r","i","s","s","i","e"," ","w","e","l","l","i","n","g","t","o","n">> \in author_set /\ <<"l","a","n","c","e"," ","a","r","m","s","t","r","o","n","g">> \in author_set
     THEN <<"c","h","r","i","s","s","i","e"," ","w","e","l","l","i","n","g","t","o","n">>
     ELSE <<>>

\* lines 191-234: a string with one comma
ResolveTwoAuthors(first_part, second_part) ==
  IF ContainsAny(Lower(second_part), ContributionWords) THEN first_part
  ELSE IF /\ Len(Words(second_part)) <= 2
          /\ Len(Words(first_part)) = 1
          /\ ~ContainsAny(Lower(second_part), CreditWords)
          /\ ~ContainsAny(Lower(first_part), WriterWords)
       THEN second_part \o <<" ">> \o first_part
  ELSE IF KnownPrimary(first_part, second_part) # <<>>
       THEN KnownPrimary(first_part, second_part)
  ELSE Lower(Strip(first_part))

\* lines 182-237
\* lines 187-237: the pieces of a string with commas
ResolveCommaParts(parts) ==
  IF Len(parts) = 2
  THEN ResolveTwoAuthors(Strip(parts[1]), Strip(parts[2]))
  ELSE Strip(parts[1])

\* lines 182-237
ResolveMultipleAuthors(s) ==
  IF HasChar(s, "/") THEN Strip(Split(s, <<"/">>)[1])
  ELSE IF HasChar(s, ",") THEN ResolveCommaParts(Split(s, <<",">>))
  ELSE s

\* (.+)$ after \s+ matches the tail t: some whitespace, then at least one
\* character, none of them a newline
TailMatches(t) ==
  \E k \in 1..(Len(t) - 1) : AllSpace(Take(t, k)) /\ ~HasChar(Drop(t, k), "\n")

\* .*$ or (.+)$ may stop just before a final newline
DollarTail(t, P(_)) ==
  P(t) \/ (Len(t) > 0 /\ t[Len(t)] = "\n" /\ P(Take(t, Len(t) - 1)))

\* -\s*translator\s+(.+)$ matches at the "-" at position p
TranslatorAt(s, p) ==
  LET j == p + 1 + WsRun(s, p + 1)
  IN /\ s[p] = "-"
     /\ StartsAt(s, j, <<"t","r","a","n","s","l","a","t","o","r">>)
     /\ DollarTail(Drop(s, j + 9), TailMatches)

\* re.search(r'\s*-\s*translator\s+(.+)$', s): the "-" of the leftmost match, 0 if none
MinOrZero(ps) == IF ps = {} THEN 0 ELSE Min(ps)

TranslatorDash(s) == MinOrZero({p \in 1..Len(s) : TranslatorAt(s, p)})

\* translator_match.group(1).strip(), the "-" of the match at p
TranslatorGroupAt(s, p) == Strip(Drop(s, p + 1 + WsRun(s, p + 1) + 9))

TranslatorGroup(s) == TranslatorGroupAt(s, TranslatorDash(s))

NoNewline(t) == ~HasChar(t, "\n")

\* -\s*(kw1|kw2|...).*$ matches at the "-" at position p
CreditAt(s, p, kws) ==
  LET j == p + 1 + WsRun(s, p + 1)
  IN /\ s[p] = "-"
     /\ \E kw \in kws : StartsAt(s, j, kw) /\ DollarTail(Drop(s, j + Len(kw) - 1), NoNewline)

\* re.sub(r'\s*-\s*(kw1|kw2|...).*$', '', s)
\* p is the "-" of the leftmost match, 0 if there is none
StripCreditsAt(s, p) ==
  IF p = 0 THEN s
  ELSE Take(s, p - WsRunBack(s, p) - 1)
         \o (IF s[Len(s)] = "\n" THEN <<"\n">> ELSE <<>>)

StripCredits(s, kws) ==
  StripCreditsAt(s, MinOrZero({p \in 1..Len(s) : CreditAt(s, p, kws)}))

AuthorCredits == { <<"a","d","a","p","t","a","t","i","o","n">>, <<"n","a","r","r","a","t","o","r">>, <<"r","e","a","d","e","r">>, <<"p","e","r","f","o","r","m","e","d"," ","b","y">> }

\* lines 244-249
AuthorStripCredits(s) ==
  IF TranslatorDash(s) # 0 THEN TranslatorGroup(s) ELSE StripCredits(s, AuthorCredits)

\* lines 253-257: re.search of 'audiobooks?!?', 'audio books?', 'recorded books?',
\* 'blackstone audio'
IsPublisher(s) ==
  ContainsAny(s, { <<"a","u","d","i","o","b","o","o","k">>, <<"a","u","d","i","o"," ","b","o","o","k">>, <<"r","e","c","o","r","d","e","d"," ","b","o","o","k">>, <<"b","l","a","c","k","s","t","o","n","e"," ","a","u","d","i","o">> })

AuthorClearPublisher(s) == IF IsPublisher(s) THEN <<>> ELSE s

\* The choices of \b[A-Za-z]\.?\s*[A-Za-z]\.?\s*[A-Za-z]?\.?\b at position i:
\* <<d1, w1, d2, w2, l3, d3, end>>, the characters each optional or starred
\* part takes and the end (exclusive) of the match
InitialsChoices(s, i) ==
  IF ~(i <= Len(s) /\ IsLetter(s[i]) /\ WordBoundary(s, i)) THEN {}
  ELSE
  { t \in
      UNION { UNION { UNION { UNION { UNION { {
          <<d1, w1, d2, w2, l3, d3, i + 1 + d1 + w1 + 1 + d2 + w2 + l3 + d3>>
          : d3 \in 0..1 } : l3 \in 0..1 }
          : w2 \in 0..WsRun(s, i + 1 + d1 + w1 + 1 + d2) } : d2 \in 0..1 }
          : w1 \in 0..WsRun(s, i + 1 + d1) } : d1 \in 0..1 } :
      LET a == i + 1
          c == a + t[1] + t[2]
          f == c + 1
          h == f + t[3] + t[4]
          m == h + t[5]
          e == t[7]
      IN /\ (t[1] = 1 => a <= Len(s) /\ s[a] = ".")
         /\ c <= Len(s) /\ IsLetter(s[c])
         /\ (t[3] = 1 => f <= Len(s) /\ s[f] = ".")
         /\ (t[5] = 1 => h <= Len(s) /\ IsLetter(s[h]))
         /\ (t[6] = 1 => m <= Len(s) /\ s[m] = ".")
         /\ WordBoundary(s, e) }

\* t is tried before u by the backtracking matcher (greedy parts first)
RECURSIVE TriedBefore(_, _, _)
TriedBefore(t, u, k) ==
  IF k > 6 THEN TRUE
  ELSE IF t[k] # u[k] THEN t[k] > u[k]
  ELSE TriedBefore(t, u, k + 1)

\* the end (exclusive) of the match of the initials pattern at i, 0 if none
FirstTriedEnd(cs) ==
  IF cs = {} THEN 0
  ELSE (CHOOSE t \in cs : \A u \in cs : TriedBefore(t, u, 1))[7]

InitialsMatchEnd(s, i) == FirstTriedEnd(InitialsChoices(s, i))

\* lines 265-270: ' '.join(re.findall(r'[a-zA-Z]', text))
SpacedLetters(text) ==
  LET letters == SelectSeq(text, IsLetter)
  IN JoinSp([k \in 1..Len(letters) |-> << letters[k] >>])

\* lines 407-411: the periods removed, whitespace runs collapsed, stripped
CompactInitials(initials) ==
  Strip(CollapseRuns(SelectSeq(initials, LAMBDA c : c # ".")))

\* re.sub(initials pattern, normalize_initials, s): every non-overlapping match,
\* from the left; spaced chooses _normalize_author's replacement (lines 265-270),
\* otherwise _normalize_single_author's (lines 407-411)
RECURSIVE SubInitialsFrom(_, _, _)
\* e is the end of the match at i
SubInitialsStep(s, i, e, spaced) ==
  IF e > 0
  THEN (IF spaced THEN SpacedLetters(SubSeq(s, i, e - 1))
                  ELSE CompactInitials(SubSeq(s, i, e - 1)))
         \o SubInitialsFrom(s, e, spaced)
  ELSE << s[i] >> \o SubInitialsFrom(s, i + 1, spaced)

SubInitialsFrom(s, i, spaced) ==
  IF i > Len(s) THEN <<>>
  ELSE SubInitialsStep(s, i, InitialsMatchEnd(s, i), spaced)

\* line 274
AuthorNormalizeInitials(s) == SubInitialsFrom(s, 1, TRUE)

_normalize_author(author) ==
  CollapseWs(RemovePunct(
    AuthorNormalizeInitials(AuthorClearPublisher(
      AuthorStripCredits(ResolveMultipleAuthors(
        StripGenerationalSuffix(AuthorCanon(author))))))))

(***************************************************************************)
(* ServerDiff._normalize_single_author and ServerDiff._extract_all_authors *)
(***************************************************************************)
Unknown == <<"u","n","k","n","o","w","n">>

SingleAuthorCredits ==
  { <<"f","o","r","e","w","o","r","d">>, <<"f","o","r","e","w","a","r","d">>, <<"i","n","t","r","o","d","u","c","t","i","o","n">>, <<"p","r","e","f","a","c","e">>, <<"a","f","t","e","r","w","o","r","d">>,
    <<"a","d","a","p","t","a","t","i","o","n">>, <<"n","a","r","r","a","t","o","r">>, <<"r","e","a","d","e","r">>, <<"p","e","r","f","o","r","m","e","d"," ","b","y">> }

\* line 403: pub in author.lower(), the patterns compared as plain text
IsPublisherLiteral(s) ==
  ContainsAny(s, { <<"a","u","d","i","o","b","o","o","k","s","?","!","?">>, <<"a","u","d","i","o"," ","b","o","o","k","s","?">>, <<"r","e","c","o","r","d","e","d"," ","b","o","o","k","s","?">>,
                   <<"b","l","a","c","k","s","t","o","n","e"," ","a","u","d","i","o">> })

\* lines 394-396: the translator pattern
SingleAuthorTranslator(s) ==
  IF TranslatorDash(s) # 0 THEN TranslatorGroup(s) ELSE s

\* line 421
SingleAuthorResult(s) == IF Len(s) > 2 THEN s ELSE Unknown

\* lines 402-421
SingleAuthorFinish(s) ==
  IF IsPublisherLiteral(Lower(s)) THEN Unknown
  ELSE SingleAuthorResult(CollapseWs(RemovePunct(SubInitialsFrom(s, 1, FALSE))))

_normalize_single_author(author) ==
  IF author = <<>> THEN Unknown
  ELSE SingleAuthorFinish(StripGenerationalSuffix(SingleAuthorTranslator(
         StripCredits(AuthorCanon(author), SingleAuthorCredits))))

ExtractCreditWords ==
  { <<"a","d","a","p","t","a","t","i","o","n">>, <<"n","a","r","r","a","t","o","r">>, <<"r","e","a","d","e","r">>, <<"f","o","r","e","w","o","r","d">>, <<"f","o","r","e","w","a","r","d">>, <<"i","n","t","r","o","d","u","c","t","i","o","n">> }

\* lines 342-362: the list of author names of an author string
StripEach(parts) == [k \in 1..Len(parts) |-> Strip(parts[k])]

\* lines 346-359: the pieces of a string with commas
CommaAuthors(parts) ==
  IF /\ Len(parts) = 2
     /\ Len(Words(parts[2])) <= 2
     /\ Len(Words(parts[1])) = 1
     /\ ~ContainsAny(Lower(parts[2]), ExtractCreditWords)
     /\ ~ContainsAny(Lower(parts[1]), WriterWords)
  THEN << Strip(parts[2]) \o <<" ">> \o Strip(parts[1]) >>
  ELSE StripEach(parts)

AuthorsList(author_string) ==
  IF HasChar(author_string, "/") THEN StripEach(Split(author_string, <<"/">>))
  ELSE IF HasChar(author_string, ",") THEN CommaAuthors(Split(author_string, <<",">>))
  ELSE << author_string >>

\* lines 364-372: the normalized names, "unknown" when none is left
NormalizedAuthors(authors_list) ==
  {_normalize_single_author(authors_list[k]) : k \in 1..Len(authors_list)}
    \ {<<>>, Unknown}

AuthorsOrUnknown(normalized_authors) ==
  IF normalized_authors = {} THEN {Unknown} ELSE normalized_authors

_extract_all_authors(author_string) ==
  IF author_string = <<>> THEN {Unknown}
  ELSE AuthorsOrUnknown(NormalizedAuthors(AuthorsList(author_string)))

\* lines 423-429
_authors_overlap(author1, author2) ==
  _extract_all_authors(author1) \cap _extract_all_authors(author2) # {}

(***************************************************************************)
(* Book records and the matching keys of ServerDiff.                       *)
(* A book is [title, author, duration, size]: the raw strings of          *)
(* media.metadata.title and media.metadata.authorName, media.duration in  *)
(* seconds and size in bytes.                                              *)
(***************************************************************************)
\* lines 286-332
_extract_book_metadata(book) ==
  [title |-> _normalize_title(book.title),
   author |-> _normalize_author(book.author),
   duration |-> book.duration,
   size |-> book.size,
   raw_title |-> book.title,
   raw_author |-> book.author]

\* Python's None, and the truth value of a key: every key holds a "|"
None == <<>>

\* lines 431-437: f"{author}|{title}"
BookKeyOf(metadata) == metadata.author \o <<"|">> \o metadata.title

_create_book_key(book) == BookKeyOf(_extract_book_metadata(book))

\* lines 439-442
_create_title_key(book) == _extract_book_metadata(book).title

\* lines 444-452: f"{title}|{duration_key}|{size}"; the three fields, which
\* hold no "|", are kept apart as a tuple, a number standing for its digits
FallbackKeyOf(metadata) ==
  IF metadata.size > 0
  THEN <<metadata.title,
         IF metadata.duration > 0 THEN <<metadata.duration>> ELSE Unknown,
         metadata.size>>
  ELSE None

_create_fallback_key(book) == FallbackKeyOf(_extract_book_metadata(book))

\* round(n / d) of Python on non-negative integers: halves go to the even integer
PyRoundDiv(n, d) ==
  LET q == n \div d
      r == n % d
  IN IF 2 * r < d THEN q
     ELSE IF 2 * r > d THEN q + 1
     ELSE IF q % 2 = 0 THEN q ELSE q + 1

FlexDurationStep == 300
FlexSizeStep == 10 * 1024 * 1024

\* lines 454-473
\* lines 469-470: the first three words of the title
FirstWords(words) == IF Len(words) > 3 THEN SubSeq(words, 1, 3) ELSE words

FlexTitleKey(title, title_words) ==
  IF Len(title_words) > 0 THEN JoinSp(title_words) ELSE title

FlexibleKeyOf(metadata) ==
  IF metadata.size > 0
  THEN <<FlexTitleKey(metadata.title, FirstWords(Words(metadata.title))),
         IF metadata.duration > 0
         THEN << PyRoundDiv(metadata.duration, FlexDurationStep) * FlexDurationStep >>
         ELSE Unknown,
         PyRoundDiv(metadata.size, FlexSizeStep) * FlexSizeStep>>
  ELSE None

_create_flexible_fallback_key(book) == FlexibleKeyOf(_extract_book_metadata(book))

\* lines 484-486 and 500-522: the primary match, the fallback match, which
\* needs equal titles and positive, equal durations and sizes, and the result
DebugFinalMatch(norm_title1, norm_author1, norm_title2, norm_author2, duration1, size1, duration2, size2) ==
  \/ norm_author1 \o <<"|">> \o norm_title1 = norm_author2 \o <<"|">> \o norm_title2
  \/ /\ norm_title1 = norm_title2
     /\ duration1 > 0 /\ size1 > 0 /\ duration2 > 0 /\ size2 > 0
     /\ duration1 = duration2 /\ size1 = size2

\* lines 475-523
debug_book_matching(title1, author1, title2, author2, duration1, size1, duration2, size2) ==
  DebugFinalMatch(_normalize_title(title1), _normalize_author(author1),
                  _normalize_title(title2), _normalize_author(author2),
                  duration1, size1, duration2, size2)

(***************************************************************************)
(* The books the servers of the model may hold.                            *)
(***************************************************************************)
TitleLong == <<"a","b"," ","c","d"," ","e","f"," ","g","h">>
TitleLongVariant == <<"T","h","e"," ","a","b"," ","c","d"," ","e","f"," ","g","h",":"," ","x">>
TitleLongOther == <<"a","b"," ","c","d"," ","e","f"," ","i","j">>
TitleShort == <<"z","z">>

\* the books the catalogs of the model are drawn from
PoolBooks ==
  << [title |-> TitleLong,        author |-> <<"b","o","b">>,           duration |-> 600, size |-> 2 * FlexSizeStep],
     [title |-> TitleLongVariant, author |-> <<"b","o","b">>,           duration |-> 0,   size |-> 0],
     [title |-> TitleLong,        author |-> <<"d","a","n",","," ","b","o","b",","," ","c","a","t">>, duration |-> 600, size |-> 2 * FlexSizeStep + 1],
     [title |-> TitleLong,        author |-> <<"c","a","t">>,           duration |-> 600, size |-> 2 * FlexSizeStep],
     [title |-> TitleLongOther,   author |-> <<"e","v","e">>,           duration |-> 610, size |-> 2 * FlexSizeStep + 5],
     [title |-> TitleLong,        author |-> <<"f","a","y">>,           duration |-> 0,   size |-> 2 * FlexSizeStep + 5],
     [title |-> TitleShort,       author |-> <<>>,            duration |-> 0,   size |-> 0] >>

\* books of the documented examples (src/server_diff.py, comments of lines
\* 99-148, 179-260 and 718-719; src/tests/test_book_matching.py, lines 64-83):
\*   'Who Moved My Cheese'                                        by 'Spencer Johnson'
\*   'Who Moved My Cheese'                                        by 'Spencer Johnson, Kenneth Blanchard'
\*   'Who Moved My Cheese'                                        by 'Kenneth Blanchard'
\*   'Dune'                                                       by 'Audiobooks'
\*   'Dune'                                                       by 'Blackstone Audio'
\*   'Dune'                                                       by ''
\*   'Dune'                                                       by 'Frank Herbert'
\*   'Dune (Movie Tie-In Edition)'                                by 'Frank Herbert'
\*   'Steelheart'                                                 by 'Brandon Sanderson'
\*   'Steelheart: A Reckoners Novel'                              by 'Brandon Sanderson'
\*   'Atomic Habits'                                              by 'James Clear'
\*   'Atomic Habits - An Easy & Proven Way to Build Good Habits'  by 'James Clear'
\*   'The Name of the Wind'                                       by 'Patrick Rothfuss'
\*   'Name of the Wind'                                           by 'Patrick Rothfuss'
\*   'The Girl Who Cried Monster'                                 by 'R. L. Stine'
\*   'The Girl Who Cried Monster'                                 by 'R.L. Stine'
\*   'The A Team'                                                 by 'Bob'
\*   'A Team'                                                     by 'Bob'
ScenarioBooks ==
  <<
     [title |-> <<"W","h","o"," ","M","o","v","e","d"," ","M","y"," ","C","h","e","e","s","e">>,
      author |-> <<"S","p","e","n","c","e","r"," ","J","o","h","n","s","o","n">>, duration |-> 0, size |-> 0],
     [title |-> <<"W","h","o"," ","M","o","v","e","d"," ","M","y"," ","C","h","e","e","s","e">>,
      author |-> <<"S","p","e","n","c","e","r"," ","J","o","h","n","s","o","n",","," ","K","e","n","n","e","t","h"," ","B","l","a","n","c","h","a","r","d">>, duration |-> 0, size |-> 0],
     [title |-> <<"W","h","o"," ","M","o","v","e","d"," ","M","y"," ","C","h","e","e","s","e">>,
      author |-> <<"K","e","n","n","e","t","h"," ","B","l","a","n","c","h","a","r","d">>, duration |-> 0, size |-> 0],
     [title |-> <<"D","u","n","e">>,
      author |-> <<"A","u","d","i","o","b","o","o","k","s">>, duration |-> 0, size |-> 0],
     [title |-> <<"D","u","n","e">>,
      author |-> <<"B","l","a","c","k","s","t","o","n","e"," ","A","u","d","i","o">>, duration |-> 0, size |-> 0],
     [title |-> <<"D","u","n","e">>,
      author |-> <<>>, duration |-> 0, size |-> 0],
     [title |-> <<"D","u","n","e">>,
      author |-> <<"F","r","a","n","k"," ","H","e","r","b","e","r","t">>, duration |-> 0, size |-> 0],
     [title |-> <<"D","u","n","e"," ","(","M","o","v","i","e"," ","T","i","e","-","I","n"," ","E","d","i","t","i","o","n",")">>,
      author |-> <<"F","r","a","n","k"," ","H","e","r","b","e","r","t">>, duration |-> 0, size |-> 0],
     [title |-> <<"S","t","e","e","l","h","e","a","r","t">>,
      author |-> <<"B","r","a","n","d","o","n"," ","S","a","n","d","e","r","s","o","n">>, duration |-> 0, size |-> 0],
     [title |-> <<"S","t","e","e","l","h","e","a","r","t",":"," ","A"," ","R","e","c","k","o","n","e","r","s"," ","N","o","v","e","l">>,
      author |-> <<"B","r","a","n","d","o","n"," ","S","a","n","d","e","r","s","o","n">>, duration |-> 0, size |-> 0],
     [title |-> <<"A","t","o","m","i","c"," ","H","a","b","i","t","s">>,
      author |-> <<"J","a","m","e","s"," ","C","l","e","a","r">>, duration |-> 0, size |-> 0],
     [title |-> <<"A","t","o","m","i","c"," ","H","a","b","i","t","s"," ","-"," ","A","n"," ","E","a","s","y"," ","&"," ","P","r","o","v","e","n"," ","W","a","y"," ","t","o"," ","B","u","i","l","d"," ","G","o","o","d"," ","H","a","b","i","t","s">>,
      author |-> <<"J","a","m","e","s"," ","C","l","e","a","r">>, duration |-> 0, size |-> 0],
     [title |-> <<"T","h","e"," ","N","a","m","e"," ","o","f"," ","t","h","e"," ","W","i","n","d">>,
      author |-> <<"P","a","t","r","i","c","k"," ","R","o","t","h","f","u","s","s">>, duration |-> 0, size |-> 0],
     [title |-> <<"N","a","m","e"," ","o","f"," ","t","h","e"," ","W","i","n","d">>,
      author |-> <<"P","a","t","r","i","c","k"," ","R","o","t","h","f","u","s","s">>, duration |-> 0, size |-> 0],
     [title |-> <<"T","h","e"," ","G","i","r","l"," ","W","h","o"," ","C","r","i","e","d"," ","M","o","n","s","t","e","r">>,
      author |-> <<"R","."," ","L","."," ","S","t","i","n","e">>, duration |-> 0, size |-> 0],
     [title |-> <<"T","h","e"," ","G","i","r","l"," ","W","h","o"," ","C","r","i","e","d"," ","M","o","n","s","t","e","r">>,
      author |-> <<"R",".","L","."," ","S","t","i","n","e">>, duration |-> 0, size |-> 0],
     [title |-> <<"T","h","e"," ","A"," ","T","e","a","m">>,
      author |-> <<"B","o","b">>, duration |-> 0, size |-> 0],
     [title |-> <<"A"," ","T","e","a","m">>,
      author |-> <<"B","o","b">>, duration |-> 0, size |-> 0] >>

Books == PoolBooks \o ScenarioBooks

BookIndex == 1..Len(Books)
PoolIndex == 1..Len(PoolBooks)
ScenarioIndex == (Len(PoolBooks) + 1)..Len(Books)

\* lines 757-758: same normalized title and overlapping authors
TitleAndAuthorsMatch(source_metadata, target_metadata) ==
  /\ source_metadata.title = target_metadata.title
  /\ _authors_overlap(source_metadata.raw_author, target_metadata.raw_author)

PairTable(metadata) ==
  [b \in BookIndex |-> [c \in BookIndex |-> TitleAndAuthorsMatch(metadata[b], metadata[c])]]

\* the metadata and the keys of every book, computed once
Metadata == [b \in BookIndex |-> _extract_book_metadata(Books[b])]
BookKey == [b \in BookIndex |-> _create_book_key(Books[b])]
TitleKey == [b \in BookIndex |-> _create_title_key(Books[b])]
FallbackKey == [b \in BookIndex |-> _create_fallback_key(Books[b])]
FlexibleKey == [b \in BookIndex |-> _create_flexible_fallback_key(Books[b])]
AuthorsOverlap == PairTable(Metadata)
\* lines 425-426: the author set of every book
AuthorSets == [b \in BookIndex |-> _extract_all_authors(Books[b].author)]

(***************************************************************************)
(* State.                                                                  *)
(***************************************************************************)
VARIABLES
  \* the two servers: [libraries_status, items_status, items], items a
  \* function from item ids to books (indices of Books)
  servers,
  \* compare_servers: where the call stands, and its locals
  phase,
  source_books, target_books,
  matched_source_ids, matched_target_ids,
  missing_in_target_primary, missing_in_source_primary,
  author_overlap_matched_source, author_overlap_matched_target,
  fallback_matches,
  match_details,
  \* what compare_servers returned, and what the call before it returned
  result, previous_result,
  \* a normalizer applied to a string and to its own output: which normalizer,
  \* the string, and the two outputs
  norm_phase, norm_fn, norm_input, norm_once, norm_twice,
  \* get_library_items: where the call stands, its locals all_items (the ids
  \* of the items, numbered as they arrive), total_items and page, the number
  \* of page requests sent after the first request, the status of the last of
  \* them and its local page_items (ids), and the list returned
  pg_phase, all_items, total_items, page, page_requests, page_status, page_items,
  items_result,
  \* the server get_library_items talks to: whether it is well-behaved, and
  \* then the number of items of its library
  well_behaved, library_size,
  \* download_missing_books: where the call stands, its list of books, the
  \* position of its loop, its success_count and the books download_book was
  \* called for; for each book, the archive at its zip_path, what became of
  \* the extraction and how download_book ended; download_file: its loop
  \* variable attempt, the answers it got, the seconds it slept before its
  \* retries and what it returned
  mb_phase, books_to_download, book_index, success_count, attempted, downloads,
  attempt, file_log, sleeps, file_result,
  \* download_selected_books: where the call stands, the number of books, the
  \* state of the task of each book, the value of the semaphore, the two
  \* counters, the results record and the tasks whose outcome was counted
  sel_phase, sel_books, tasks, semaphore, download_counter, completed_counter,
  results, collected,
  \* BookSelector.select_books_interactive: where the call stands, its
  \* argument books (shelf), its locals filtered_books and current_page, the set
  \* self.selected_books, the ids of the books of the last call of
  \* downloader.download_selected_books, and the list returned
  bs_phase, shelf, filtered_books, current_page, selected_books,
  download_requested, bs_returned,
  \* the menu shown after a comparison: where it stands, the program that
  \* shows it, the lists missing_in_target and missing_in_source of the
  \* results (item ids), the server and the list handed to
  \* download_missing_books, the position of its loop and the download_book
  \* calls made: the server called and the id asked for
  menu_phase, entry, menu_results, menu_server, menu_books, menu_index, requests

cmpVars ==
  << servers, phase, source_books, target_books,
     matched_source_ids, matched_target_ids,
     missing_in_target_primary, missing_in_source_primary,
     author_overlap_matched_source, author_overlap_matched_target,
     fallback_matches, match_details, result, previous_result >>

normVars == << norm_phase, norm_fn, norm_input, norm_once, norm_twice >>

pageVars ==
  << pg_phase, all_items, total_items, page, page_requests, page_status, page_items,
     items_result, well_behaved, library_size >>

fileVars == << attempt, file_log, sleeps, file_result >>
missVars ==
  << mb_phase, books_to_download, book_index, success_count, attempted, downloads,
     fileVars >>

selVars ==
  << sel_phase, sel_books, tasks, semaphore, download_counter, completed_counter,
     results, collected >>

chooseVars ==
  << bs_phase, shelf, filtered_books, current_page, selected_books,
     download_requested, bs_returned >>

menuVars == << menu_phase, entry, menu_results, menu_server, menu_books, menu_index, requests >>

vars == << cmpVars, normVars, pageVars, missVars, selVars, chooseVars, menuVars >>

nonCmpVars == << normVars, pageVars, missVars, selVars, chooseVars, menuVars >>
nonNormVars == << cmpVars, pageVars, missVars, selVars, chooseVars, menuVars >>
nonPageVars == << cmpVars, normVars, missVars, selVars, chooseVars, menuVars >>
nonMissVars == << cmpVars, normVars, pageVars, selVars, chooseVars, menuVars >>
nonSelVars == << cmpVars, normVars, pageVars, missVars, chooseVars, menuVars >>
nonChooseVars == << cmpVars, normVars, pageVars, missVars, selVars, menuVars >>
nonMenuVars == << cmpVars, normVars, pageVars, missVars, selVars, chooseVars >>

(***************************************************************************)
(* Bounds of the model.                                                    *)
(***************************************************************************)
\* items per server
MaxItems == 2

Sides == {"source", "target"}
ItemIds(side, n) == {<<side, k>> : k \in 1..n}

\* The catalogs of one server with at most n items.  Item ids are opaque, so
\* the books are listed in the order of Books.
Catalogs(side, n) ==
  UNION { {c \in [ItemIds(side, m) -> PoolIndex] :
             \A k \in 1..(m - 1) : c[<<side, k>>] <= c[<<side, k + 1>>]}
          : m \in 0..n }

EmptyCatalog == [x \in {} |-> 0]
NoResult == [returned |-> FALSE]
NoDetails ==
  [primary |-> {}, author_overlap |-> {}, fallback_exact |-> {}, fallback_flexible |-> {}]

StatusOK == "200"
Statuses == {"200", "500", "unreachable"}

(***************************************************************************)
(* AudiobookshelfDownloader.get_libraries / get_library_items as          *)
(* get_server_books sees them, and ServerDiff.get_server_books.            *)
(***************************************************************************)
\* src/audiobookshelf_downloader.py lines 77-92: the libraries, [] on any failure
get_libraries(server) ==
  IF server.libraries_status = StatusOK THEN << "library" >> ELSE << >>

\* src/audiobookshelf_downloader.py lines 94-187 (one page): the items, [] on
\* any failure
get_library_items(server) ==
  IF server.items_status = StatusOK THEN server.items ELSE EmptyCatalog

\* lines 591-635
get_server_books(server) ==
  IF Len(get_libraries(server)) = 0 THEN EmptyCatalog
  ELSE get_library_items(server)

(***************************************************************************)
(* ServerDiff.compare_servers.                                             *)
(***************************************************************************)
\* the orders in which a set may be iterated
Orders(S) ==
  {f \in [1..Cardinality(S) -> S] : \A i, j \in 1..Cardinality(S) : f[i] = f[j] => i = j}

\* lines 667-677: source_by_metadata / target_by_metadata
KeysOf(books, keyOf) == {keyOf[books[x]] : x \in DOMAIN books}
IdsWithKey(books, key, keyOf) == {x \in DOMAIN books : keyOf[books[x]] = key}

\* one source item and one target item of each key present on both sides
PairedGroups(src, tgt, keyOf) ==
  { [match_type |-> "primary",
     source_items |-> {CHOOSE x \in IdsWithKey(src, key, keyOf) : TRUE},
     target_items |-> {CHOOSE y \in IdsWithKey(tgt, key, keyOf) : TRUE}]
    : key \in KeysOf(src, keyOf) \cap KeysOf(tgt, keyOf) }

\* lines 683-708: one match group per metadata key present on both sides
PrimaryGroups(src, tgt, keyOf) ==
  { [match_type |-> "primary",
     source_items |-> IdsWithKey(src, key, keyOf),
     target_items |-> IdsWithKey(tgt, key, keyOf)]
    : key \in KeysOf(src, keyOf) \cap KeysOf(tgt, keyOf) }

\* the items of the groups of a tier
SourceItemsOf(groups) == UNION {g.source_items : g \in groups}
TargetItemsOf(groups) == UNION {g.target_items : g \in groups}

\* lines 645-652
FetchCatalogs ==
  /\ phase = "start"
  /\ source_books' = get_server_books(servers.source)
  /\ target_books' = get_server_books(servers.target)
  /\ phase' = "tier1"
  /\ UNCHANGED << servers, matched_source_ids, matched_target_ids,
                  missing_in_target_primary, missing_in_source_primary,
                  author_overlap_matched_source, author_overlap_matched_target,
                  fallback_matches, match_details, result, previous_result >>
  /\ UNCHANGED nonCmpVars

\* lines 657-716
PrimaryMatch ==
  /\ phase = "tier1"
  /\ match_details' =
       [match_details EXCEPT !.primary = PrimaryGroups(source_books, target_books, BookKey)]
  /\ matched_source_ids' = SourceItemsOf(match_details'.primary)
  /\ matched_target_ids' = TargetItemsOf(match_details'.primary)
  /\ missing_in_target_primary' = DOMAIN source_books \ matched_source_ids'
  /\ missing_in_source_primary' = DOMAIN target_books \ matched_target_ids'
  /\ phase' = "tier2"
  /\ UNCHANGED << servers, source_books, target_books,
                  author_overlap_matched_source, author_overlap_matched_target,
                  fallback_matches, result, previous_result >>
  /\ UNCHANGED nonCmpVars

\* the first target not matched yet, whatever its title and its authors
FirstUnmatched(source_key, target_order, used, title_key, overlap) ==
  MinOrZero({k \in 1..Len(target_order) : target_order[k] \notin used})

\* the first target with the title and overlapping authors, matched or not
FirstOverlapAmongAll(source_key, target_order, used, title_key, overlap) ==
  MinOrZero({k \in 1..Len(target_order) :
               /\ title_key[target_books[target_order[k]]] = title_key[source_books[source_key]]
               /\ overlap[source_books[source_key]][target_books[target_order[k]]]})

\* lines 745-774: the first target of the title's list, in its order, that is
\* not matched yet and whose authors overlap the source's; 0 if none
FirstOverlap(source_key, target_order, used, title_key, overlap) ==
  MinOrZero({k \in 1..Len(target_order) :
               /\ target_order[k] \notin used
               /\ title_key[target_books[target_order[k]]] = title_key[source_books[source_key]]
               /\ overlap[source_books[source_key]][target_books[target_order[k]]]})

\* lines 742-774: the pairs made when the unmatched sources and targets are
\* visited in the given orders; k is the target found for the i-th source
RECURSIVE OverlapPairs(_, _, _, _, _, _)
OverlapPairsStep(source_order, target_order, i, used, k, title_key, overlap) ==
  IF k = 0 THEN OverlapPairs(source_order, target_order, i + 1, used, title_key, overlap)
  ELSE {<<source_order[i], target_order[k]>>}
         \cup OverlapPairs(source_order, target_order, i + 1,
                           used \cup {target_order[k]}, title_key, overlap)

OverlapPairs(source_order, target_order, i, used, title_key, overlap) ==
  IF i > Len(source_order) THEN {}
  ELSE OverlapPairsStep(source_order, target_order, i, used,
                        FirstOverlap(source_order[i], target_order, used, title_key, overlap),
                        title_key, overlap)

\* lines 763-773: one match group per pair
OverlapGroups(pairs) ==
  { [match_type |-> "author_overlap",
     source_items |-> {pr[1]},
     target_items |-> {pr[2]}] : pr \in pairs }

\* every item of a server, matched or not
AllItems(books, missing) == DOMAIN books

\* lines 724-736: the items of a server the author-overlap tier looks at
OverlapCandidates(books, missing) == missing

\* lines 718-783
AuthorOverlapMatch ==
  /\ phase = "tier2"
  /\ \E source_order \in Orders(OverlapCandidates(source_books, missing_in_target_primary)),
        target_order \in Orders(OverlapCandidates(target_books, missing_in_source_primary)) :
       match_details' =
         [match_details EXCEPT !.author_overlap =
            OverlapGroups(OverlapPairs(source_order, target_order, 1, {},
                                       TitleKey, AuthorsOverlap))]
  /\ author_overlap_matched_source' = SourceItemsOf(match_details'.author_overlap)
  /\ author_overlap_matched_target' = TargetItemsOf(match_details'.author_overlap)
  /\ missing_in_target_primary' = missing_in_target_primary \ author_overlap_matched_source'
  /\ missing_in_source_primary' = missing_in_source_primary \ author_overlap_matched_target'
  /\ phase' = "tier3"
  /\ UNCHANGED << servers, source_books, target_books,
                  matched_source_ids, matched_target_ids,
                  fallback_matches, result, previous_result >>
  /\ UNCHANGED nonCmpVars

\* lines 794-822: d[key] = item for every item in the order given, later
\* items overwriting earlier ones; items without a key are left out
KeyMap(books, order, keyOf) ==
  [key \in {keyOf[books[order[i]]] : i \in 1..Len(order)} \ {None} |->
     order[Max({i \in 1..Len(order) : keyOf[books[order[i]]] = key})]]

\* lines 794-822: the key maps of both sides
FallbackMaps(source_order, target_order, keyOf) ==
  [source |-> KeyMap(source_books, source_order, keyOf),
   target |-> KeyMap(target_books, target_order, keyOf)]

\* lines 825, 828: the keys present on both sides
SharedKeys(maps) == DOMAIN maps.source \cap DOMAIN maps.target

\* no item at all
NoneMatched(map, keys) == {}

\* lines 831-836
AlreadyMatched(map, keys) == {map[k] : k \in keys}

\* every flexible key present on both sides
FlexibleSharedKeys(flexible, already_source, already_target) == SharedKeys(flexible)

\* lines 838-843: the flexible keys on both sides whose items were not matched exactly
FlexibleMatchedKeys(flexible, already_source, already_target) ==
  {k \in SharedKeys(flexible) :
     /\ flexible.source[k] \notin already_source
     /\ flexible.target[k] \notin already_target}

\* lines 852-922: one match group per matched key
FallbackGroups(match_type, maps, keys) ==
  { [match_type |-> match_type,
     source_items |-> {maps.source[k]},
     target_items |-> {maps.target[k]}] : k \in keys }

\* lines 825-925, given the exact and the flexible key maps; every matched key
\* adds one group, takes its two items off the missing sets and counts once
FallbackAssign(exact, flexible) ==
  /\ match_details' =
       [match_details EXCEPT
          !.fallback_exact = FallbackGroups("fallback_exact", exact, SharedKeys(exact)),
          !.fallback_flexible =
             FallbackGroups("fallback_flexible", flexible,
                            FlexibleMatchedKeys(flexible,
                               AlreadyMatched(exact.source, SharedKeys(exact)),
                               AlreadyMatched(exact.target, SharedKeys(exact))))]
  /\ missing_in_target_primary' =
       (missing_in_target_primary \ SourceItemsOf(match_details'.fallback_exact))
         \ SourceItemsOf(match_details'.fallback_flexible)
  /\ missing_in_source_primary' =
       (missing_in_source_primary \ TargetItemsOf(match_details'.fallback_exact))
         \ TargetItemsOf(match_details'.fallback_flexible)
  /\ fallback_matches' =
       Cardinality(match_details'.fallback_exact)
         + Cardinality(match_details'.fallback_flexible)

\* lines 785-925
FallbackMatch ==
  /\ phase = "tier3"
  /\ \E source_order \in Orders(missing_in_target_primary),
        target_order \in Orders(missing_in_source_primary) :
       FallbackAssign(FallbackMaps(source_order, target_order, FallbackKey),
                      FallbackMaps(source_order, target_order, FlexibleKey))
  /\ phase' = "result"
  /\ UNCHANGED << servers, source_books, target_books,
                  matched_source_ids, matched_target_ids,
                  author_overlap_matched_source, author_overlap_matched_target,
                  result, previous_result >>
  /\ UNCHANGED nonCmpVars

\* lines 927-947
ReturnResult ==
  /\ phase = "result"
  /\ result' =
       [returned |-> TRUE,
        missing_in_target |-> missing_in_target_primary,
        missing_in_source |-> missing_in_source_primary,
        common_books |-> matched_source_ids,
        author_overlap_matches |-> Cardinality(author_overlap_matched_source),
        fallback_matches |-> fallback_matches,
        source_total |-> Cardinality(DOMAIN source_books),
        target_total |-> Cardinality(DOMAIN target_books),
        match_details |-> match_details]
  /\ phase' = "done"
  /\ UNCHANGED << servers, source_books, target_books,
                  matched_source_ids, matched_target_ids,
                  missing_in_target_primary, missing_in_source_primary,
                  author_overlap_matched_source, author_overlap_matched_target,
                  fallback_matches, match_details, previous_result >>
  /\ UNCHANGED nonCmpVars

\* lines 637-947, a second call: compare_servers is run again on the same two
\* servers, the sets iterated in an order of their own
CompareAgain ==
  /\ phase = "done"
  /\ previous_result = NoResult
  /\ previous_result' = result
  /\ result' = NoResult
  /\ phase' = "start"
  /\ source_books' = EmptyCatalog
  /\ target_books' = EmptyCatalog
  /\ matched_source_ids' = {}
  /\ matched_target_ids' = {}
  /\ missing_in_target_primary' = {}
  /\ missing_in_source_primary' = {}
  /\ author_overlap_matched_source' = {}
  /\ author_overlap_matched_target' = {}
  /\ fallback_matches' = 0
  /\ match_details' = NoDetails
  /\ UNCHANGED servers
  /\ UNCHANGED nonCmpVars

CompareInit(server_set, first_phase) ==
  /\ servers \in server_set
  /\ phase = first_phase
  /\ source_books = EmptyCatalog
  /\ target_books = EmptyCatalog
  /\ matched_source_ids = {}
  /\ matched_target_ids = {}
  /\ missing_in_target_primary = {}
  /\ missing_in_source_primary = {}
  /\ author_overlap_matched_source = {}
  /\ author_overlap_matched_target = {}
  /\ fallback_matches = 0
  /\ match_details = NoDetails
  /\ result = NoResult
  /\ previous_result = NoResult

\* no compare_servers call is under way
CompareIdle == CompareInit({<<>>}, "idle")

Server(ls, is, items) == [libraries_status |-> ls, items_status |-> is, items |-> items]

\* two reachable servers that answer every list call with status 200
HealthyServers ==
  { [source |-> Server(StatusOK, StatusOK, cs), target |-> Server(StatusOK, StatusOK, ct)]
    : cs \in Catalogs("source", MaxItems), ct \in Catalogs("target", MaxItems) }

\* a server may be unreachable, or answer a list call with a status other than 200
FaultyServers ==
  { [source |-> Server(ls, is, cs), target |-> Server(lt, it, ct)]
    : ls \in Statuses, is \in Statuses, lt \in Statuses, it \in Statuses,
      cs \in Catalogs("source", 1), ct \in Catalogs("target", 1) }

\* no normalizer is being applied
NormIdle ==
  /\ norm_phase = "idle"
  /\ norm_fn = "none"
  /\ norm_input = <<>>
  /\ norm_once = <<>>
  /\ norm_twice = <<>>

\* no get_library_items call is under way
PagesIdle ==
  /\ pg_phase = "idle"
  /\ all_items = <<>>
  /\ total_items = 0
  /\ page = 0
  /\ page_requests = 0
  /\ page_status = "none"
  /\ page_items = <<>>
  /\ items_result = <<>>
  /\ well_behaved = FALSE
  /\ library_size = 0

\* a book download_book was not called for: no archive at its zip_path
NoDownload == [archive |-> "none", extraction |-> "none", returned |-> "none"]

\* the state of download_missing_books before its first step
MissingInit(book_lists, first_phase) ==
  /\ mb_phase = first_phase
  /\ books_to_download \in book_lists
  /\ downloads = [i \in 1..Len(books_to_download) |-> NoDownload]
  /\ book_index = 0
  /\ success_count = 0
  /\ attempted = {}
  /\ attempt = 0
  /\ file_log = <<>>
  /\ sleeps = <<>>
  /\ file_result = "none"

\* no download_missing_books call is under way
MissingIdle == MissingInit({<<>>}, "idle")

NoCounts == [total |-> 0, success |-> 0, failed |-> 0]

\* the state of download_selected_books before its first step
SelectedInit(sizes, first_phase) ==
  /\ sel_phase = first_phase
  /\ sel_books \in sizes
  /\ tasks = <<>>
  /\ semaphore = 0
  /\ download_counter = 0
  /\ completed_counter = 0
  /\ results = NoCounts
  /\ collected = {}

\* no download_selected_books call is under way
SelectedIdle == SelectedInit({0}, "idle")

\* the state of select_books_interactive before its first step
ChooseInit(shelves, first_phase) ==
  /\ bs_phase = first_phase
  /\ shelf \in shelves
  /\ filtered_books = shelf
  /\ current_page = 0
  /\ selected_books = {}
  /\ download_requested = <<>>
  /\ bs_returned = <<>>

\* no select_books_interactive call is under way
ChooseIdle == ChooseInit({<<>>}, "idle")

NoMissing == [missing_in_target |-> <<>>, missing_in_source |-> <<>>, total_common |-> 0]

\* the state of the menu before its first step
MenuInit(entries, results_shown, first_phase) ==
  /\ menu_phase = first_phase
  /\ entry \in entries
  /\ menu_results \in results_shown
  /\ menu_server = "none"
  /\ menu_books = <<>>
  /\ menu_index = 0
  /\ requests = {}

\* no menu is shown
MenuIdle == MenuInit({"none"}, {NoMissing}, "idle")

\* neither the book selector nor the menu is in use
InteractiveIdle == ChooseIdle /\ MenuIdle

Init ==
  /\ CompareInit(HealthyServers, "start")
  /\ NormIdle /\ PagesIdle /\ MissingIdle /\ SelectedIdle /\ InteractiveIdle

Next ==
  \/ FetchCatalogs
  \/ PrimaryMatch
  \/ AuthorOverlapMatch
  \/ FallbackMatch
  \/ ReturnResult
  \/ CompareAgain

Spec == Init /\ [][Next]_vars

\* compare_servers on servers whose list calls may fail
InitFetch ==
  /\ CompareInit(FaultyServers, "start")
  /\ NormIdle /\ PagesIdle /\ MissingIdle /\ SelectedIdle /\ InteractiveIdle

SpecFetch == InitFetch /\ [][Next]_vars

\* compare_servers on two servers that hold one book each, a book of the
\* documented examples
OneBookCatalogs(side) == {[x \in ItemIds(side, 1) |-> b] : b \in ScenarioIndex}

ScenarioServers ==
  { [source |-> Server(StatusOK, StatusOK, cs), target |-> Server(StatusOK, StatusOK, ct)]
    : cs \in OneBookCatalogs("source"), ct \in OneBookCatalogs("target") }

InitScenarios ==
  /\ CompareInit(ScenarioServers, "start")
  /\ NormIdle /\ PagesIdle /\ MissingIdle /\ SelectedIdle /\ InteractiveIdle

SpecScenarios == InitScenarios /\ [][Next]_vars

(***************************************************************************)
(* The normalizers applied to their own output.                            *)
(***************************************************************************)
\* the longest input string
MaxStrLen == 5

NormAlphabet == {"a", "b", " "}

\* the strings over NormAlphabet of at most n characters
Strings(n) == UNION { [1..k -> NormAlphabet] : k \in 0..n }

Normalize(fn, s) == IF fn = "title" THEN _normalize_title(s) ELSE _normalize_author(s)

NormalizeOnce ==
  /\ norm_phase = "input"
  /\ norm_once' = Normalize(norm_fn, norm_input)
  /\ norm_phase' = "once"
  /\ UNCHANGED << norm_fn, norm_input, norm_twice >>
  /\ UNCHANGED nonNormVars

NormalizeTwice ==
  /\ norm_phase = "once"
  /\ norm_twice' = Normalize(norm_fn, norm_once)
  /\ norm_phase' = "twice"
  /\ UNCHANGED << norm_fn, norm_input, norm_once >>
  /\ UNCHANGED nonNormVars

InitNorm ==
  /\ InteractiveIdle
  /\ CompareIdle
  /\ PagesIdle
  /\ MissingIdle
  /\ SelectedIdle
  /\ norm_phase = "input"
  /\ norm_fn \in {"title", "author"}
  /\ norm_input \in Strings(MaxStrLen)
  /\ norm_once = <<>>
  /\ norm_twice = <<>>

NextNorm == NormalizeOnce \/ NormalizeTwice

SpecNorm == InitNorm /\ [][NextNorm]_vars

(***************************************************************************)
(* AudiobookshelfDownloader.get_library_items                              *)
(* (src/audiobookshelf_downloader.py, lines 94-187).                       *)
(***************************************************************************)
\* the limit parameter: the page size asked of the server
limit == 2
\* the largest total a server reports
MaxTotal == 12
\* a server sends at most the items asked for
MaxPageLen == limit

\* line 130
max_pages == 10

\* the ids a faulty server lists more than once inside a page
TwiceListed == {2}

\* line 149: the ids of a list of items; the largest of them
existing_ids(items) == {items[k] : k \in DOMAIN items}
LargestId(items) == IF items = <<>> THEN 0 ELSE Max(existing_ids(items))

\* the number of items of the list whose id occurs earlier in the list
Repeats(items) == Len(items) - Cardinality(existing_ids(items))

\* the ids fetched before that a page may list again: the oldest and the
\* newest of them
EchoIds(items) == IF items = <<>> THEN {} ELSE {items[1], items[Len(items)]}

\* the ids fetched before come first in the page, oldest first; an id not
\* fetched before is numbered one past the ids before it, and is listed again
\* only if it is one of TwiceListed
Numbered(items, s) ==
  \A k \in DOMAIN s :
    IF s[k] > LargestId(items)
    THEN /\ s[k] <= 1 + Max({LargestId(items)} \cup {s[j] : j \in 1..(k - 1)})
         /\ s[k] \in {s[j] : j \in 1..(k - 1)} => s[k] \in TwiceListed
    ELSE \A j \in 1..(k - 1) : s[j] < s[k]

\* lines 110-113 and 138-141: the items of an answer, each with an id: ids
\* fetched before, in any order, and ids not fetched before
PagesAfter(items) ==
  { s \in UNION { [1..n -> EchoIds(items) \cup ((LargestId(items) + 1)..(LargestId(items) + n))] :
                    n \in 0..MaxPageLen } :
      Numbered(items, s) }

\* the first answer of the server: its status and, with status 200, its items
\* and the total it reports
FirstAnswers ==
  [status : Statuses \ {StatusOK}, items : {<<>>}, total : {0}]
    \cup [status : {StatusOK}, items : PagesAfter(<<>>), total : 0..MaxTotal]

\* the answer to a page request: its status and, with status 200, its items
PageAnswers(items) ==
  [status : Statuses \ {StatusOK}, items : {<<>>}]
    \cup [status : {StatusOK}, items : PagesAfter(items)]

\* the largest library of a well-behaved server: one item more than the
\* first request and max_pages page requests can bring
MaxLibrary == (max_pages + 1) * limit + 1

\* page p of a well-behaved server with a library of the items 1..size: the
\* next limit items, or the ones that are left
WellBehavedPage(size, p) ==
  [k \in 1..(Min({(p + 1) * limit, size}) - p * limit) |-> p * limit + k]

\* the answers the server may give to the first request (page 0) and to the
\* request for page p: a well-behaved server answers with the page and the
\* true total, another server with anything
ServerFirstAnswers ==
  IF well_behaved
  THEN {[status |-> StatusOK, items |-> WellBehavedPage(library_size, 0), total |-> library_size]}
  ELSE FirstAnswers
ServerPageAnswers(items, p) ==
  IF well_behaved
  THEN {[status |-> StatusOK, items |-> WellBehavedPage(library_size, p)]}
  ELSE PageAnswers(items)

\* every item of the page is taken
every_item(items, fetched) == fetched

\* lines 147-153: the items of the page whose id is not among existing_ids
new_items(items, fetched) == SelectSeq(fetched, LAMBDA id : id \notin existing_ids(items))

\* lines 159: all_items.extend(new_items)
Extended(items, fetched) == items \o new_items(items, fetched)

\* the loop stops on an empty page only
EmptyPageOnly(items, fetched) == fetched = <<>>

\* lines 143-145 and 155-157: the page is empty, or none of its items is new
NothingNew(items, fetched) == fetched = <<>> \/ new_items(items, fetched) = <<>>

\* the loop goes on without a limit on the pages
MorePagesUnbounded(p, items, total) == Len(items) < total

\* line 132: the condition of the while loop
MorePages(p, items, total) == p <= max_pages /\ Len(items) < total

\* lines 96-127 and 179-187: the first request
FirstRequest ==
  /\ pg_phase = "first"
  /\ \E answer \in ServerFirstAnswers :
       IF answer.status # StatusOK
       THEN /\ pg_phase' = "returned"
            /\ items_result' = <<>>
            /\ UNCHANGED << all_items, total_items, page >>
       ELSE IF answer.total > Len(answer.items)
       THEN /\ pg_phase' = "loop"
            /\ all_items' = answer.items
            /\ total_items' = answer.total
            /\ page' = 1
            /\ UNCHANGED items_result
       ELSE /\ pg_phase' = "returned"
            /\ items_result' = answer.items
            /\ total_items' = answer.total
            /\ UNCHANGED << all_items, page >>
  /\ UNCHANGED << page_requests, page_status, page_items, well_behaved, library_size >>
  /\ UNCHANGED nonPageVars

\* lines 132-177: one turn of the while loop
PageRequest ==
  /\ pg_phase = "loop"
  /\ MorePages(page, all_items, total_items)
  /\ page_requests' = page_requests + 1
  /\ \E answer \in ServerPageAnswers(all_items, page) :
       /\ page_status' = answer.status
       /\ IF answer.status = "unreachable"
          THEN \* lines 185-187: the exception ends the call
               /\ pg_phase' = "returned"
               /\ items_result' = <<>>
               /\ UNCHANGED << all_items, page, page_items >>
          ELSE IF answer.status # StatusOK
          THEN \* lines 172-174: break
               /\ pg_phase' = "returned"
               /\ items_result' = all_items
               /\ UNCHANGED << all_items, page, page_items >>
          ELSE IF NothingNew(all_items, answer.items)
          THEN \* lines 143-145, 155-157: break
               /\ page_items' = answer.items
               /\ pg_phase' = "returned"
               /\ items_result' = all_items
               /\ UNCHANGED << all_items, page >>
          ELSE /\ page_items' = answer.items
               /\ all_items' = Extended(all_items, answer.items)
               /\ page' = page + 1
               /\ IF Len(answer.items) < limit \/ Len(all_items') >= total_items
                  THEN \* lines 163-170: break
                       /\ pg_phase' = "returned"
                       /\ items_result' = all_items'
                  ELSE /\ pg_phase' = "loop"
                       /\ UNCHANGED items_result
  /\ UNCHANGED << total_items, well_behaved, library_size >>
  /\ UNCHANGED nonPageVars

\* lines 132, 175-177: the loop ends on its condition
PagesExhausted ==
  /\ pg_phase = "loop"
  /\ ~MorePages(page, all_items, total_items)
  /\ pg_phase' = "returned"
  /\ items_result' = all_items
  /\ UNCHANGED << all_items, total_items, page, page_requests, page_status, page_items,
                  well_behaved, library_size >>
  /\ UNCHANGED nonPageVars

InitPages ==
  /\ InteractiveIdle
  /\ CompareIdle
  /\ NormIdle
  /\ MissingIdle
  /\ SelectedIdle
  /\ pg_phase = "first"
  /\ all_items = <<>>
  /\ total_items = 0
  /\ page = 0
  /\ page_requests = 0
  /\ page_status = "none"
  /\ page_items = <<>>
  /\ items_result = <<>>
  /\ well_behaved = FALSE
  /\ library_size = 0

NextPages == FirstRequest \/ PageRequest \/ PagesExhausted

\* the server answers every request, so the call takes its next step
SpecPages == InitPages /\ [][NextPages]_vars /\ WF_vars(NextPages)

\* the call against a well-behaved server with a library of any size
InitWellBehaved ==
  /\ InteractiveIdle
  /\ CompareIdle
  /\ NormIdle
  /\ MissingIdle
  /\ SelectedIdle
  /\ pg_phase = "first"
  /\ all_items = <<>>
  /\ total_items = 0
  /\ page = 0
  /\ page_requests = 0
  /\ page_status = "none"
  /\ page_items = <<>>
  /\ items_result = <<>>
  /\ well_behaved = TRUE
  /\ library_size \in 0..MaxLibrary

SpecWellBehaved == InitWellBehaved /\ [][NextPages]_vars /\ WF_vars(NextPages)

\* C8: get_library_items sends at most max_pages page requests after the
\* first request, whatever the server answers, and the call ends.
C8_PageBound == [](page_requests <= max_pages) /\ <>(pg_phase = "returned")

\* the call has ended after max_pages page requests
C8_Witness == pg_phase = "returned" /\ page_requests = max_pages

(***************************************************************************)
(* ServerDiff.download_missing_books (src/server_diff.py, lines 525-589)   *)
(* with AudiobookshelfDownloader.download_book and download_file           *)
(* (src/audiobookshelf_downloader.py, lines 203-305).                      *)
(***************************************************************************)
\* the longest list of books
MaxBooks == 3

\* src/config.py, line 14
MAX_RETRIES == 3

\* a book whose media.metadata.title is a string, or is null
BookKinds == {"titled", "untitled"}

BookLists(n) == UNION { [1..k -> BookKinds] : k \in 0..n }

\* what the server does with a download request: status 200 and the whole
\* body, another status, or a transport error
FileAnswers == {"200", "404", "timeout"}

\* src/audiobookshelf_downloader.py, lines 234-249 and 288: the archive is
\* extracted and removed, is not a valid archive, or cannot be removed
ExtractOutcomes == {"extracted", "bad_zip", "remove_error"}

\* lines 532-568: the guards before the loop, with the answer of get_libraries
BeginBatch ==
  /\ mb_phase = "start"
  /\ \E libraries \in {get_libraries(Server(s, s, EmptyCatalog)) : s \in Statuses} :
       IF Len(books_to_download) = 0 \/ Len(libraries) = 0
       THEN mb_phase' = "returned" /\ UNCHANGED book_index
       ELSE mb_phase' = "next" /\ book_index' = 1
  /\ UNCHANGED << books_to_download, success_count, attempted, downloads, fileVars >>
  /\ UNCHANGED nonMissVars

\* src/server_diff.py, lines 571-581, and the start of download_book,
\* src/audiobookshelf_downloader.py, lines 251-267: _create_safe_filename
\* iterates over the title, which raises TypeError when the title is null;
\* the loop of download_missing_books has no handler, so the call ends there
StartBook ==
  /\ mb_phase = "next"
  /\ book_index <= Len(books_to_download)
  /\ attempted' = attempted \cup {book_index}
  /\ mb_phase' = IF books_to_download[book_index] = "untitled" THEN "raised" ELSE "details"
  /\ downloads' = IF books_to_download[book_index] = "untitled"
                  THEN [downloads EXCEPT ![book_index].returned = "raised"]
                  ELSE downloads
  /\ UNCHANGED << books_to_download, book_index, success_count, fileVars >>
  /\ UNCHANGED nonMissVars

\* src/audiobookshelf_downloader.py, lines 271-274: get_item_details
GetDetails ==
  /\ mb_phase = "details"
  /\ \E book_details \in BOOLEAN :
       IF book_details
       THEN /\ mb_phase' = "file"
            /\ attempt' = 0
            /\ file_log' = <<>>
            /\ sleeps' = <<>>
            /\ file_result' = "none"
            /\ UNCHANGED book_index
            /\ UNCHANGED downloads
       ELSE /\ mb_phase' = "next"
            /\ book_index' = book_index + 1
            /\ downloads' = [downloads EXCEPT ![book_index].returned = "False"]
            /\ UNCHANGED fileVars
  /\ UNCHANGED << books_to_download, success_count, attempted >>
  /\ UNCHANGED nonMissVars

\* lines 219-220 and 224-225: the sleep before a retry
Backoff(slept, n, retries) == IF n < retries THEN Append(slept, 2 ^ n) ELSE slept

\* lines 205-228: the loop of download_file takes another turn only after an
\* exception, and only while attempt < retries
RetriesAfter(answer, n, retries) == answer = "timeout" /\ n < retries

\* lines 211-215: the file at file_path after one request. Status 200 opens
\* the file for writing and copies the body; a transport error comes before
\* the answer, and leaves the file as it was, or while the body is copied, and
\* leaves a part of it
Written(archive, answer, body_started) ==
  IF answer = "200" THEN "whole"
  ELSE IF answer = "timeout" /\ body_started THEN "partial"
  ELSE archive

\* src/audiobookshelf_downloader.py, lines 205-228: one turn of the loop of
\* download_file, and lines 284, 293-295 of download_book when it returns False
FileAttempt ==
  /\ mb_phase = "file"
  /\ \E answer \in FileAnswers, body_started \in BOOLEAN :
       /\ file_log' = Append(file_log, answer)
       /\ IF answer = "200"
          THEN /\ file_result' = "ok"
               /\ mb_phase' = "extract"
               /\ downloads' = [downloads EXCEPT ![book_index].archive = Written(@, answer, body_started)]
               /\ UNCHANGED << attempt, sleeps, book_index >>
          ELSE /\ sleeps' = Backoff(sleeps, attempt, MAX_RETRIES)
               /\ IF RetriesAfter(answer, attempt, MAX_RETRIES)
                  THEN /\ attempt' = attempt + 1
                       /\ downloads' = [downloads EXCEPT ![book_index].archive = Written(@, answer, body_started)]
                       /\ UNCHANGED << file_result, mb_phase, book_index >>
                  ELSE /\ file_result' = "failed"
                       /\ mb_phase' = "next"
                       /\ book_index' = book_index + 1
                       /\ downloads' = [downloads EXCEPT ![book_index] =
                                          [@ EXCEPT !.archive = Written(@, answer, body_started),
                                                    !.returned = "False"]]
                       /\ UNCHANGED attempt
  /\ UNCHANGED << books_to_download, success_count, attempted >>
  /\ UNCHANGED nonMissVars

\* the archive is removed whether or not it was extracted
RemoveAlways(download, outcome) ==
  IF outcome = "bad_zip"
  THEN [archive |-> "none", extraction |-> "failed", returned |-> "False"]
  ELSE IF outcome = "extracted"
  THEN [archive |-> "none", extraction |-> "ok", returned |-> "True"]
  ELSE [download EXCEPT !.extraction = "ok", !.returned = "raised"]

\* src/audiobookshelf_downloader.py, lines 284-292 and 305: _extract_zip_file
\* returns False and download_book returns False, the archive left where it
\* is; or the archive is extracted and os.remove deletes it, and download_book
\* returns True, or os.remove raises and so does download_book
AfterExtract(download, outcome) ==
  IF outcome = "bad_zip"
  THEN [download EXCEPT !.extraction = "failed", !.returned = "False"]
  ELSE IF outcome = "extracted"
  THEN [archive |-> "none", extraction |-> "ok", returned |-> "True"]
  ELSE [download EXCEPT !.extraction = "ok", !.returned = "raised"]

\* src/audiobookshelf_downloader.py, lines 284-292 and 305, and
\* src/server_diff.py, lines 581-585
ExtractArchive ==
  /\ mb_phase = "extract"
  /\ \E outcome \in ExtractOutcomes :
       /\ downloads' = [downloads EXCEPT ![book_index] = AfterExtract(@, outcome)]
       /\ mb_phase' = IF outcome = "remove_error" THEN "raised" ELSE "next"
       /\ book_index' = IF outcome = "remove_error" THEN book_index ELSE book_index + 1
       /\ success_count' = IF outcome = "extracted" THEN success_count + 1 ELSE success_count
  /\ UNCHANGED << books_to_download, attempted, fileVars >>
  /\ UNCHANGED nonMissVars

\* src/server_diff.py, lines 572 and 587-589: the loop is over
FinishBatch ==
  /\ mb_phase = "next"
  /\ book_index > Len(books_to_download)
  /\ mb_phase' = "returned"
  /\ UNCHANGED << books_to_download, book_index, success_count, attempted, downloads,
                  fileVars >>
  /\ UNCHANGED nonMissVars

InitMissing ==
  /\ InteractiveIdle
  /\ CompareIdle
  /\ NormIdle
  /\ PagesIdle
  /\ SelectedIdle
  /\ MissingInit(BookLists(MaxBooks), "start")

NextMissing ==
  \/ BeginBatch
  \/ StartBook
  \/ GetDetails
  \/ FileAttempt
  \/ ExtractArchive
  \/ FinishBatch

SpecMissing == InitMissing /\ [][NextMissing]_vars

\* C5: download_file returns False only after MAX_RETRIES + 1 attempts have
\* failed, a non-200 answer and a transport error alike, and it has slept
\* 2^attempt seconds before each of its MAX_RETRIES retries.
C5_RetriesBeforeFailure ==
  file_result = "failed" =>
    /\ Len(file_log) = MAX_RETRIES + 1
    /\ sleeps = [k \in 1..MAX_RETRIES |-> 2 ^ (k - 1)]

\* C6: the failure of one item does not end the batch: the call of
\* download_missing_books does not end on an exception of download_book, and
\* when it has ended every book of the list has been attempted.
C6_BatchContinues ==
  /\ mb_phase # "raised"
  /\ (mb_phase = "returned" /\ attempted # {}) =>
       attempted = 1..Len(books_to_download)

(***************************************************************************)
(* AudiobookshelfDownloader.download_selected_books                        *)
(* (src/audiobookshelf_downloader.py, lines 320-392).                      *)
(***************************************************************************)
\* the largest number of selected books
MaxSelected == 5

\* src/config.py, line 10
MAX_CONCURRENT_DOWNLOADS == 3

\* how a call of download_book ends: it returns True or False, or it raises
DownloadOutcomes == {"success", "failed", "raised"}

\* the tasks that have ended, and how
Ended == {"done_success", "done_failed", "raised"}

TasksIn(states) == {k \in DOMAIN tasks : tasks[k] \in states}

\* the download_book calls under way
InFlight == TasksIn({"downloading"})

\* a semaphore that never blocks
AlwaysFree(value) == TRUE

\* asyncio.Semaphore: acquire goes through while the value is positive
SlotFree(value) == value > 0

\* lines 322-338 and 373-374: the early return, or the semaphore, the counters
\* and one task for every book
StartBatch ==
  /\ sel_phase = "start"
  /\ IF sel_books = 0
     THEN /\ sel_phase' = "returned"
          /\ UNCHANGED << tasks, semaphore, results >>
     ELSE /\ sel_phase' = "running"
          /\ tasks' = [k \in 1..sel_books |-> "queued"]
          /\ semaphore' = MAX_CONCURRENT_DOWNLOADS
          /\ results' = [total |-> sel_books, success |-> 0, failed |-> 0]
  /\ UNCHANGED << sel_books, download_counter, completed_counter, collected >>
  /\ UNCHANGED nonSelVars

\* lines 344-352: the tasks reach the semaphore in the order of their creation
\* and its waiters are served first come, first served; the task that gets a
\* slot takes its number and calls download_book
Acquire ==
  /\ sel_phase = "running"
  /\ TasksIn({"queued"}) # {}
  /\ SlotFree(semaphore)
  /\ semaphore' = semaphore - 1
  /\ download_counter' = download_counter + 1
  /\ tasks' = [tasks EXCEPT ![Min(TasksIn({"queued"}))] = "downloading"]
  /\ UNCHANGED << sel_phase, sel_books, completed_counter, results, collected >>
  /\ UNCHANGED nonSelVars

\* the slot is not given back
Kept(value) == value

\* asyncio.Semaphore: the end of the async with block gives the slot back
Released(value) == value + 1

\* lines 356-358: the 'remaining' and the 'active' of the progress line
\* printed when completed_counter has the value given
remaining(completed) == sel_books - completed
in_progress(completed) ==
  IF remaining(completed) > 0
  THEN Min({MAX_CONCURRENT_DOWNLOADS, remaining(completed)})
  ELSE 0

\* lines 352-364: download_book returns and the task counts it and goes to
\* sleep for DOWNLOAD_DELAY with its slot; or download_book raises, which
\* takes the task out of the async with block and gives the slot back
FinishDownload(k) ==
  /\ sel_phase = "running"
  /\ tasks[k] = "downloading"
  /\ \E outcome \in DownloadOutcomes :
       IF outcome = "raised"
       THEN /\ tasks' = [tasks EXCEPT ![k] = "raised"]
            /\ semaphore' = Released(semaphore)
            /\ UNCHANGED completed_counter
       ELSE /\ tasks' = [tasks EXCEPT ![k] = "delay_" \o outcome]
            /\ completed_counter' = completed_counter + 1
            /\ UNCHANGED semaphore
  /\ UNCHANGED << sel_phase, sel_books, download_counter, results, collected >>
  /\ UNCHANGED nonSelVars

\* lines 368-371: the sleep is over, the task leaves the async with block and
\* returns its result
EndDelay(k) ==
  /\ sel_phase = "running"
  /\ tasks[k] \in {"delay_success", "delay_failed"}
  /\ tasks' = [tasks EXCEPT ![k] = IF tasks[k] = "delay_success" THEN "done_success"
                                                              ELSE "done_failed"]
  /\ semaphore' = Released(semaphore)
  /\ UNCHANGED << sel_phase, sel_books, download_counter, completed_counter,
                  results, collected >>
  /\ UNCHANGED nonSelVars

\* a task that raised is counted nowhere
CountReturnedOnly(counts, ended) ==
  IF ended = "done_success" THEN [counts EXCEPT !.success = @ + 1]
  ELSE IF ended = "done_failed" THEN [counts EXCEPT !.failed = @ + 1]
  ELSE counts

\* lines 381-389: True counts as a success; False, and an exception of the
\* task, count as a failure
CountOutcome(counts, ended) ==
  IF ended = "done_success" THEN [counts EXCEPT !.success = @ + 1]
  ELSE [counts EXCEPT !.failed = @ + 1]

\* lines 380-389: as_completed hands over a task that has ended
Collect(k) ==
  /\ sel_phase = "running"
  /\ tasks[k] \in Ended
  /\ k \notin collected
  /\ collected' = collected \cup {k}
  /\ results' = CountOutcome(results, tasks[k])
  /\ UNCHANGED << sel_phase, sel_books, tasks, semaphore, download_counter,
                  completed_counter >>
  /\ UNCHANGED nonSelVars

\* lines 390-392
ReturnResults ==
  /\ sel_phase = "running"
  /\ collected = DOMAIN tasks
  /\ sel_phase' = "returned"
  /\ UNCHANGED << sel_books, tasks, semaphore, download_counter, completed_counter,
                  results, collected >>
  /\ UNCHANGED nonSelVars

InitSelected ==
  /\ InteractiveIdle
  /\ CompareIdle
  /\ NormIdle
  /\ PagesIdle
  /\ MissingIdle
  /\ SelectedInit(0..MaxSelected, "start")

NextSelected ==
  \/ StartBatch
  \/ Acquire
  \/ \E k \in DOMAIN tasks : FinishDownload(k)
  \/ \E k \in DOMAIN tasks : EndDelay(k)
  \/ \E k \in DOMAIN tasks : Collect(k)
  \/ ReturnResults

SpecSelected == InitSelected /\ [][NextSelected]_vars

\* the event loop runs every task that can take a step, and every call of
\* download_book and every sleep ends
SpecSelectedFair == SpecSelected /\ WF_vars(NextSelected)

\* C4: at every instant of download_selected_books at most
\* MAX_CONCURRENT_DOWNLOADS calls of download_book are under way.
C4_ConcurrencyBound == Cardinality(InFlight) <= MAX_CONCURRENT_DOWNLOADS

\* MAX_CONCURRENT_DOWNLOADS calls under way while a book waits for a slot,
\* after a call that raised
C4_Witness ==
  /\ Cardinality(InFlight) = MAX_CONCURRENT_DOWNLOADS
  /\ TasksIn({"queued"}) # {}
  /\ TasksIn({"raised"}) # {}

\* C11: the counts download_selected_books returns have total equal to the
\* number of books requested and success + failed = total; success is the
\* number of books whose download_book returned True, so every book is counted
\* once, whether it succeeded, failed or raised.
C11_CountsComplete ==
  sel_phase = "returned" =>
    /\ results.total = sel_books
    /\ results.success + results.failed = results.total
    /\ results.success = Cardinality(TasksIn({"done_success"}))

\* a batch has returned after a success, a failure and an exception
C11_Witness ==
  /\ sel_phase = "returned"
  /\ TasksIn({"done_success"}) # {}
  /\ TasksIn({"done_failed"}) # {}
  /\ TasksIn({"raised"}) # {}

(***************************************************************************)
(* Properties of compare_servers.                                          *)
(***************************************************************************)
AllGroups(details) ==
  details.primary \cup details.author_overlap
    \cup details.fallback_exact \cup details.fallback_flexible

\* the number of places of the result that hold a source item / a target item
SourcePlaces(r, x) ==
  Cardinality({g \in AllGroups(r.match_details) : x \in g.source_items})
    + (IF x \in r.missing_in_target THEN 1 ELSE 0)
TargetPlaces(r, x) ==
  Cardinality({g \in AllGroups(r.match_details) : x \in g.target_items})
    + (IF x \in r.missing_in_source THEN 1 ELSE 0)

\* C1: in the result of compare_servers every source item is in exactly one
\* place among the source_items of the match groups and missing_in_target, and
\* every target item in exactly one place among the target_items of the match
\* groups and missing_in_source.
C1_Partition ==
  result.returned =>
    /\ \A x \in DOMAIN servers.source.items : SourcePlaces(result, x) = 1
    /\ \A x \in DOMAIN servers.target.items : TargetPlaces(result, x) = 1

\* a result with a primary group next to a flexible fallback group
C1_Witness ==
  /\ result.returned
  /\ result.match_details.primary # {}
  /\ result.match_details.fallback_flexible # {}

\* the items of one side whose primary key is the key of an item of the other side
PrimaryMatchable(books, others) ==
  {x \in DOMAIN books : \E y \in DOMAIN others : BookKey[books[x]] = BookKey[others[y]]}

LaterGroups(details) ==
  details.author_overlap \cup details.fallback_exact \cup details.fallback_flexible

C3_Deterministic ==
  (phase = "done" /\ previous_result.returned) => result = previous_result

\* C7: compare_servers returns a result only when no list call has failed: a
\* server that is unreachable or answers the list-libraries or the list-items
\* request with a status other than 200 makes the comparison end without a
\* normal result.
C7_FailureSurfaced ==
  result.returned =>
    \A side \in Sides :
      /\ servers[side].libraries_status = StatusOK
      /\ servers[side].items_status = StatusOK

\* C9: a normalizer applied to its own output gives that output again.
C9_Idempotent == norm_phase = "twice" => norm_twice = norm_once

\* C10: the counts of the result add up: len(common_books) +
\* author_overlap_matches + fallback_matches + len(missing_in_target) is
\* source_total, and the number of target items in the match groups +
\* len(missing_in_source) is target_total.
C10_CountsAddUp ==
  result.returned =>
    /\ Cardinality(result.common_books) + result.author_overlap_matches
         + result.fallback_matches + Cardinality(result.missing_in_target)
       = result.source_total
    /\ Cardinality(TargetItemsOf(AllGroups(result.match_details)))
         + Cardinality(result.missing_in_source)
       = result.target_total

\* a result where every term of the source sum counts
C10_Witness ==
  /\ result.returned
  /\ result.source_total >= 2
  /\ result.fallback_matches > 0
  /\ result.author_overlap_matches + Cardinality(result.common_books) > 0

\* the items of one side that the author-overlap groups hold for a title
OverlapItemsWithTitle(items, books, title) ==
  {x \in items : TitleKey[books[x]] = title}

\* C12: every author_overlap group of compare_servers holds one source item
\* and one target item with the same normalized title and with a common
\* extracted author, no item is in two author_overlap groups, and for every
\* title as many source items as target items are matched by author overlap.
C12_OverlapOneToOne ==
  phase \in {"tier3", "result", "done"} =>
    /\ \A g \in match_details.author_overlap :
         /\ Cardinality(g.source_items) = 1
         /\ Cardinality(g.target_items) = 1
         /\ \A x \in g.source_items, y \in g.target_items :
              /\ TitleKey[source_books[x]] = TitleKey[target_books[y]]
              /\ AuthorSets[source_books[x]] \cap AuthorSets[target_books[y]] # {}
    /\ \A g, h \in match_details.author_overlap :
         g # h => /\ g.source_items \cap h.source_items = {}
                  /\ g.target_items \cap h.target_items = {}
    /\ \A b \in BookIndex :
         Cardinality(OverlapItemsWithTitle(author_overlap_matched_source, source_books, TitleKey[b]))
           = Cardinality(OverlapItemsWithTitle(author_overlap_matched_target, target_books, TitleKey[b]))

\* one target was given to one of two source items with its title whose
\* authors both overlap the target's; the other source item stayed unmatched
C12_Witness ==
  /\ result.returned
  /\ \E g \in result.match_details.author_overlap :
       \E x \in result.missing_in_target, y \in g.target_items :
         /\ TitleKey[source_books[x]] = TitleKey[target_books[y]]
         /\ AuthorSets[source_books[x]] \cap AuthorSets[target_books[y]] # {}

\* the catalog holds one item, the book with this title and this author
HoldsOnly(books, title, author) ==
  /\ Cardinality(DOMAIN books) = 1
  /\ \A x \in DOMAIN books : Books[books[x]].title = title /\ Books[books[x]].author = author

WhoMovedMyCheese == <<"W","h","o"," ","M","o","v","e","d"," ","M","y"," ","C","h","e","e","s","e">>
SpencerJohnson == <<"S","p","e","n","c","e","r"," ","J","o","h","n","s","o","n">>
JohnsonAndBlanchard == <<"S","p","e","n","c","e","r"," ","J","o","h","n","s","o","n",","," ","K","e","n","n","e","t","h"," ","B","l","a","n","c","h","a","r","d">>

\* the two servers hold "Who Moved My Cheese", the source by the first author
\* and the target by the second, and compare_servers has returned
CheeseCompared(source_author, target_author) ==
  /\ result.returned
  /\ HoldsOnly(servers.source.items, WhoMovedMyCheese, source_author)
  /\ HoldsOnly(servers.target.items, WhoMovedMyCheese, target_author)

\* C13: source "Who Moved My Cheese" by "Spencer Johnson" and target "Who
\* Moved My Cheese" by "Spencer Johnson, Kenneth Blanchard" are matched by the
\* author-overlap tier and not by the primary tier.
C13_CheeseAtTier2 ==
  CheeseCompared(SpencerJohnson, JohnsonAndBlanchard) =>
    /\ result.match_details.primary = {}
    /\ Cardinality(result.match_details.author_overlap) = 1

\* title is base followed by a colon and a subtitle
ColonVariant(title, base) ==
  /\ ~HasChar(base, ":")
  /\ Len(title) > Len(base)
  /\ Take(title, Len(base)) = base
  /\ title[Len(base) + 1] = ":"

\* title is base followed by one parenthetical that names an edition
EditionVariant(title, base) ==
  /\ Len(title) > Len(base) + 3
  /\ Take(title, Len(base)) = base
  /\ StartsAt(title, Len(base) + 1, <<" ", "(">>)
  /\ title[Len(title)] = ")"
  /\ ~HasChar(SubSeq(title, Len(base) + 3, Len(title) - 1), ")")
  /\ Contains(Lower(Drop(title, Len(base))), <<"e","d","i","t","i","o","n">>)

\* title is base followed by " - " and a subtitle of two or more words
DashVariant(title, base) ==
  /\ ~Contains(base, <<" ", "-", " ">>)
  /\ Len(title) > Len(base) + 3
  /\ Take(title, Len(base)) = base
  /\ StartsAt(title, Len(base) + 1, <<" ", "-", " ">>)
  /\ ~Contains(Drop(title, Len(base) + 3), <<" ", "-", " ">>)
  /\ Len(Words(Drop(title, Len(base) + 3))) >= 2

\* title is base after a leading article
ArticleVariant(title, base) ==
  \E article \in {<<"t","h","e"," ">>, <<"a"," ">>, <<"a","n"," ">>} :
    /\ Len(title) > Len(article)
    /\ Lower(Take(title, Len(article))) = article
    /\ Drop(title, Len(article)) = base

TitleVariant(title, base) ==
  \/ ColonVariant(title, base)
  \/ EditionVariant(title, base)
  \/ DashVariant(title, base)
  \/ ArticleVariant(title, base)

\* the letters of an author string, its periods and spaces left out
WithoutPeriodsAndSpaces(author) == SelectSeq(author, LAMBDA c : c # "." /\ c # " ")

\* the last word of an author string, and what stands before it
LastWord(author) == Words(author)[Len(Words(author))]
BeforeLastWord(author) == Take(author, Len(author) - Len(LastWord(author)))

\* the two author strings end in the same surname after initials that differ
\* only in their periods and spaces
InitialsVariant(author1, author2) ==
  /\ author1 # author2
  /\ Len(Words(author1)) >= 2 /\ Len(Words(author2)) >= 2
  /\ author1[Len(author1)] # " " /\ author2[Len(author2)] # " "
  /\ LastWord(author1) = LastWord(author2)
  /\ WithoutPeriodsAndSpaces(BeforeLastWord(author1))
       = WithoutPeriodsAndSpaces(BeforeLastWord(author2))
  /\ Contains(author1, <<".">>) /\ Contains(author2, <<".">>)

\* the two books have the same author and titles that differ only by a
\* subtitle, an edition parenthetical or a leading article, or the same title
\* and authors that differ only in the periods and spaces of the initials
SameBookVariant(book1, book2) ==
  \/ /\ book1.author = book2.author
     /\ TitleVariant(book1.title, book2.title) \/ TitleVariant(book2.title, book1.title)
  \/ /\ book1.title = book2.title
     /\ InitialsVariant(book1.author, book2.author)

DebugMatches(book1, book2) ==
  debug_book_matching(book1.title, book1.author, book2.title, book2.author,
                      book1.duration, book1.size, book2.duration, book2.size)

\* C14: two items with the same author whose titles differ only by a colon
\* subtitle, a trailing edition parenthetical, a " - " subtitle of two or more
\* words or a leading article, or with the same title and authors that differ
\* only in the spacing and periods of initials, have the same primary key,
\* are matched by the primary tier, and debug_book_matching returns TRUE.
C14_VariantsMatchAtTier1 ==
  result.returned =>
    \A x \in DOMAIN source_books, y \in DOMAIN target_books :
      SameBookVariant(Books[source_books[x]], Books[target_books[y]]) =>
        /\ BookKey[source_books[x]] = BookKey[target_books[y]]
        /\ \E g \in result.match_details.primary :
             x \in g.source_items /\ y \in g.target_items
        /\ DebugMatches(Books[source_books[x]], Books[target_books[y]])

\* normalized title, normalized author, duration and size of the two books
\* all differ
AllFieldsDiffer(b, c) ==
  /\ Metadata[b].title # Metadata[c].title
  /\ Metadata[b].author # Metadata[c].author
  /\ Metadata[b].duration # Metadata[c].duration
  /\ Metadata[b].size # Metadata[c].size

\* none of the four keys of book b equals the corresponding key of book c
NoKeyShared(b, c) ==
  /\ BookKey[b] # BookKey[c]
  /\ TitleKey[b] # TitleKey[c]
  /\ FallbackKey[b] = None \/ FallbackKey[b] # FallbackKey[c]
  /\ FlexibleKey[b] = None \/ FlexibleKey[b] # FlexibleKey[c]

\* the item is reported missing and is in no match group
OnlyMissing(x, missing, matched) == x \in missing /\ x \notin matched

\* C15 as stated: a source item whose normalized title, normalized author,
\* duration and size all differ from those of every target item is in
\* missing_in_target and in no match group, and symmetrically for a target
\* item and missing_in_source.
C15_AllDifferentUnmatched ==
  result.returned =>
    /\ \A x \in DOMAIN source_books :
         (\A y \in DOMAIN target_books : AllFieldsDiffer(source_books[x], target_books[y]))
           => OnlyMissing(x, result.missing_in_target,
                          SourceItemsOf(AllGroups(result.match_details)))
    /\ \A y \in DOMAIN target_books :
         (\A x \in DOMAIN source_books : AllFieldsDiffer(source_books[x], target_books[y]))
           => OnlyMissing(y, result.missing_in_source,
                          TargetItemsOf(AllGroups(result.match_details)))

\* C15 as amended: a source item none of whose primary, title, exact-fallback
\* and flexible-fallback keys equals the corresponding key of any target item
\* is in missing_in_target and in no match group, and symmetrically for a
\* target item and missing_in_source.
C15_NoSharedKeyUnmatched ==
  result.returned =>
    /\ \A x \in DOMAIN source_books :
         (\A y \in DOMAIN target_books : NoKeyShared(source_books[x], target_books[y]))
           => OnlyMissing(x, result.missing_in_target,
                          SourceItemsOf(AllGroups(result.match_details)))
    /\ \A y \in DOMAIN target_books :
         (\A x \in DOMAIN source_books : NoKeyShared(source_books[x], target_books[y]))
           => OnlyMissing(y, result.missing_in_source,
                          TargetItemsOf(AllGroups(result.match_details)))

\* a source item shares no key with the two target items, one of which is
\* matched with the other source item
C15_Witness ==
  /\ result.returned
  /\ Cardinality(DOMAIN target_books) = 2
  /\ AllGroups(result.match_details) # {}
  /\ \E x \in result.missing_in_target :
       \A y \in DOMAIN target_books : NoKeyShared(source_books[x], target_books[y])

\* lines 251-257: the author is empty or a publisher's name, which
\* _normalize_author clears
UnknownAuthor(b) == Metadata[b].author = <<>>

\* C16: two items with the same normalized title whose authors are both
\* unknown (empty, or cleared as a publisher's name) are not matched with each
\* other by the primary tier or by the author-overlap tier.
C16_UnknownsNotMatched ==
  result.returned =>
    \A x \in DOMAIN source_books, y \in DOMAIN target_books :
      /\ UnknownAuthor(source_books[x])
      /\ UnknownAuthor(target_books[y])
      /\ Metadata[source_books[x]].title = Metadata[target_books[y]].title
      => \A g \in result.match_details.primary \cup result.match_details.author_overlap :
           ~(x \in g.source_items /\ y \in g.target_items)

\* the archive of book i is deleted by this step
ArchiveDeleted(i) == downloads[i].archive # "none" /\ downloads'[i].archive = "none"

\* C17: when the extraction of a downloaded archive fails, download_book
\* returns False and the archive is still at its zip_path; and a step deletes
\* an archive only when it has extracted it.
C17_FailedExtractionKeepsArchive ==
  /\ [](\A i \in DOMAIN downloads :
          downloads[i].extraction = "failed" =>
            downloads[i].returned = "False" /\ downloads[i].archive = "whole")
  /\ [][\A i \in DOMAIN downloads :
          ArchiveDeleted(i) => downloads[i].extraction = "none" /\ downloads'[i].extraction = "ok"]_vars

\* the call has ended; one archive failed to extract and is kept, another was
\* extracted and deleted
C17_Witness ==
  /\ mb_phase = "returned"
  /\ \E i \in DOMAIN downloads :
       downloads[i].extraction = "failed" /\ downloads[i].archive = "whole"
  /\ \E i \in DOMAIN downloads :
       downloads[i].extraction = "ok" /\ downloads[i].archive = "none"

\* the step is a page request answered with a page
PageFetched == page_requests' = page_requests + 1 /\ page_status' = StatusOK

\* C18: get_library_items deduplicates by id across pages: a page request adds
\* to all_items only items whose id is not among the items accumulated from
\* the pages before, so that a page which lists no item twice, whatever it
\* echoes of the pages before, leaves all_items and the returned list with no
\* id twice if all_items had none before.
C18_DedupAcrossPages ==
  [][PageFetched =>
       /\ \A k \in (Len(all_items) + 1)..Len(all_items') :
            all_items'[k] \notin existing_ids(all_items)
       /\ (Repeats(all_items) = 0 /\ Repeats(page_items') = 0) =>
            Repeats(all_items') = 0 /\ Repeats(items_result') = 0]_vars

\* the loop goes on after a page that listed the oldest item again, before a
\* new one
C18_Witness ==
  /\ pg_phase = "loop"
  /\ page_requests >= 2
  /\ page_status = StatusOK
  /\ Len(all_items) >= 3
  /\ Len(page_items) >= 2
  /\ page_items[1] = all_items[1]
  /\ page_items[Len(page_items)] = all_items[Len(all_items)]
  /\ Repeats(all_items) = 0

\* C19: when a requested page is empty or holds only items whose ids were
\* fetched before, the loop stops: the call returns the items accumulated so
\* far, and no further page is requested.
C19_StopsOnNothingNew ==
  /\ [][(PageFetched /\ existing_ids(page_items') \subseteq existing_ids(all_items)) =>
          pg_phase' = "returned" /\ items_result' = all_items /\ all_items' = all_items]_vars
  /\ [][pg_phase = "returned" => page_requests' = page_requests]_vars

\* the call returned after a full page of items fetched before, with fewer
\* items than the total and pages to spare
C19_Witness ==
  /\ pg_phase = "returned"
  /\ page_status = StatusOK
  /\ page_requests >= 2
  /\ Len(page_items) >= limit
  /\ page <= max_pages
  /\ items_result # <<>>
  /\ Len(items_result) < total_items
  /\ existing_ids(page_items) \subseteq existing_ids(items_result)

\* the primary tier has run
AfterTier1 == phase \in {"tier2", "tier3", "result", "done"}

\* the items of the catalog with the primary key of book b
WithPrimaryKey(books, b) == {x \in DOMAIN books : BookKey[books[x]] = BookKey[b]}

\* C20: after tier 1, for every primary key present on both sides all the
\* source items and all the target items with the key are marked matched and
\* are together in one 'primary' group, the only one that holds any of them;
\* and no item left unmatched shares its primary key with an item of the other
\* side.
C20_WholeKeyGroups ==
  AfterTier1 =>
    /\ \A x \in DOMAIN source_books, y \in DOMAIN target_books :
         BookKey[source_books[x]] = BookKey[target_books[y]] =>
           /\ WithPrimaryKey(source_books, source_books[x]) \subseteq matched_source_ids
           /\ WithPrimaryKey(target_books, target_books[y]) \subseteq matched_target_ids
           /\ \E g \in match_details.primary :
                /\ g.source_items = WithPrimaryKey(source_books, source_books[x])
                /\ g.target_items = WithPrimaryKey(target_books, target_books[y])
           /\ Cardinality({g \in match_details.primary :
                             x \in g.source_items \/ y \in g.target_items}) = 1
    /\ \A x \in missing_in_target_primary, y \in DOMAIN target_books :
         BookKey[source_books[x]] # BookKey[target_books[y]]
    /\ \A y \in missing_in_source_primary, x \in DOMAIN source_books :
         BookKey[source_books[x]] # BookKey[target_books[y]]

\* one 'primary' group holds two source copies and a target item, and
\* another target item is left unmatched
C20_Witness ==
  /\ AfterTier1
  /\ \E g \in match_details.primary :
       Cardinality(g.source_items) >= 2 /\ Cardinality(g.target_items) >= 1
  /\ missing_in_source_primary # {}

\* the pairs of a source item and a target item that the result reports
\* missing, both with a size above 0, whose keys of the table are equal
UnmatchedPairs(keyOf) ==
  { <<x, y>> \in result.missing_in_target \X result.missing_in_source :
      /\ Metadata[source_books[x]].size > 0
      /\ Metadata[target_books[y]].size > 0
      /\ keyOf[source_books[x]] = keyOf[target_books[y]] }

\* C21: after tier 3a no unmatched source item and unmatched target item,
\* both with a size above 0, have equal keys title|duration|size, also when
\* several items of one side share the key.
C21_ExactKeysMatched == result.returned => UnmatchedPairs(FallbackKey) = {}

\* C22: after tier 3b no unmatched source item and unmatched target item,
\* both with a size above 0, have equal keys first three words of the
\* title|rounded duration|rounded size, also when another item with the same
\* flexible key was matched by tier 3a.
C22_FlexibleKeysMatched == result.returned => UnmatchedPairs(FlexibleKey) = {}

\* the tasks that sleep for DOWNLOAD_DELAY with their slot
Delayed == TasksIn({"delay_success", "delay_failed"})

\* C23: a task whose download has ended, by success, by failure or by an
\* exception of download_book, keeps its slot until its delay is over: a slot
\* is given back only by a task that ends its delay, so no queued download is
\* admitted into it before.
C23_SlotKeptForDelay ==
  [][semaphore' > semaphore => \E k \in Delayed : tasks'[k] \in Ended]_vars

\* a progress line is printed by this step
ProgressPrinted == completed_counter' = completed_counter + 1

\* C24: in every progress line done + remaining = total, and 'active' is the
\* number of downloads under way at that instant.
C24_LiveCounts ==
  [][ProgressPrinted =>
       /\ completed_counter' + remaining(completed_counter') = results.total
       /\ in_progress(completed_counter') = Cardinality(InFlight')]_vars

\* C25: the counters lose no update: the tasks admitted have the start numbers
\* 1..download_counter, at every progress line completed_counter is the number
\* of tasks whose download has ended, by success, failure or exception, and
\* when the batch ends completed_counter is the number of books requested.
C25_CountersComplete ==
  /\ [](download_counter = Cardinality(DOMAIN tasks \ TasksIn({"queued"})))
  /\ [][ProgressPrinted =>
          completed_counter' = Cardinality((DOMAIN tasks \ TasksIn({"queued", "downloading"}))')]_vars
  /\ [](sel_phase = "returned" => completed_counter = sel_books)

\* C26: download_selected_books terminates: every queued task gets a slot,
\* and the call returns with every slot given back and every task accounted
\* for.
C26_BatchTerminates ==
  /\ <>(sel_phase = "returned")
  /\ [](sel_phase = "returned" /\ sel_books > 0 =>
          /\ TasksIn(Ended) = DOMAIN tasks
          /\ collected = DOMAIN tasks
          /\ semaphore = MAX_CONCURRENT_DOWNLOADS)

\* the call has returned after books waited for a slot, one of the downloads
\* having raised
C26_Witness ==
  /\ sel_phase = "returned"
  /\ sel_books > MAX_CONCURRENT_DOWNLOADS
  /\ TasksIn({"raised"}) # {}
  /\ semaphore = MAX_CONCURRENT_DOWNLOADS

\* the items 1..n, in their order
FirstItems(n) == [k \in 1..n |-> k]

\* C27: against a well-behaved server get_library_items returns
\* every item of the library, total distinct items, whatever the size of the
\* library.
C27_WholeLibrary ==
  (well_behaved /\ pg_phase = "returned") => items_result = FirstItems(library_size)

(***************************************************************************)
(* BookSelector.select_books_interactive (src/book_selector.py).           *)
(***************************************************************************)
\* books handed to the selector
MaxShelf == 3

\* line 133: per_page = 20; the model shows fewer books on a page
per_page == 2

ShelfTitles == {<<"a">>, <<"B">>}
ShelfAuthor == <<"c">>

\* the search terms typed after f, as the command arrives: stripped and in
\* lower case (line 148)
FilterTerms == {<<>>, <<"a">>, <<"b">>, <<"c">>}

\* the lists of n books: the book at position k has id k
Shelves(n) ==
  UNION { { [k \in 1..m |-> [id |-> k, title |-> titles[k], author |-> ShelfAuthor]]
            : titles \in [1..m -> ShelfTitles] } : m \in 0..n }

\* [book.get('id', '') for book in list]
BookIdsOf(list) == [k \in 1..Len(list) |-> list[k].id]
ElementsOf(list) == {list[k] : k \in 1..Len(list)}

\* lines 26-28: books[start_idx:end_idx]
display_books(list, p) ==
  SubSeq(list, p * per_page + 1, Min({(p + 1) * per_page, Len(list)}))

\* line 57: the number N of the line "Selected: N books"
selected_count == Cardinality(selected_books)

\* line 142
max_pages_shown(list) == Max({1, (Len(list) + per_page - 1) \div per_page})

\* lines 305-324
_filter_books_with_term(list, filter_term) ==
  IF Lower(filter_term) = <<>> THEN list
  ELSE SelectSeq(list, LAMBDA book :
         \/ Contains(Lower(book.title), Lower(filter_term))
         \/ Contains(Lower(book.author), Lower(filter_term)))

\* line 159: the books handed to _download_selected_books
FilteredSelection(list, ids) == SelectSeq(list, LAMBDA book : book.id \in ids)

\* lines 251-260
resolve_index(selection_number, total_books) ==
  IF selection_number <= 0 THEN 0
  ELSE IF selection_number - 1 < total_books THEN selection_number ELSE 0

\* a part of the text typed after s: a range, a number, or a text int()
\* rejects
RangeNumbers == 0..(MaxShelf + 1)
SingleParts ==
  {[kind |-> "single", start |-> a, end |-> a] : a \in RangeNumbers}
    \cup {[kind |-> "invalid", start |-> 0, end |-> 0]}
RangeParts ==
  {[kind |-> "range", start |-> a, end |-> b] : a \in RangeNumbers, b \in RangeNumbers}
    \cup SingleParts
\* the texts typed: one part, or two parts that are no ranges
RangeInputs == {<<part>> : part \in RangeParts} \cup {<<p1, p2>> : p1 \in SingleParts, p2 \in SingleParts}

\* lines 267-287: the ids one part adds
PartIds(part, all_books) ==
  { all_books[n].id :
      n \in { m \in Min({part.start, part.end})..Max({part.start, part.end}) :
                resolve_index(m, Len(all_books)) # 0 } }

\* lines 262-295: the parts are taken in turn; int() raising ValueError ends
\* the loop, the ids added before it stay
RECURSIVE _select_by_range(_, _, _, _)
_select_by_range(parts, i, all_books, ids) ==
  IF i > Len(parts) \/ parts[i].kind = "invalid" THEN ids
  ELSE _select_by_range(parts, i + 1, all_books, ids \cup PartIds(parts[i], all_books))

\* lines 675-688
create_book_key(book) ==
  << CollapseWs(RemovePunct(Lower(book.author))), CollapseWs(RemovePunct(Lower(book.title))) >>

\* lines 127-129
OpenSelector ==
  /\ bs_phase = "start"
  /\ bs_phase' = IF shelf = <<>> THEN "returned" ELSE "menu"
  /\ UNCHANGED << shelf, filtered_books, current_page, selected_books,
                  download_requested, bs_returned >>
  /\ UNCHANGED nonChooseVars

\* lines 150-151
Quit ==
  /\ bs_phase = "menu"
  /\ bs_phase' = "returned"
  /\ bs_returned' = <<>>
  /\ UNCHANGED << shelf, filtered_books, current_page, selected_books, download_requested >>
  /\ UNCHANGED nonChooseVars

\* lines 152-168 and 482-575: d.  Nothing selected, nothing to hand over, or
\* the answer to "Continue? (y/N)" is not y: the selector waits for Enter.
\* Else downloader.download_selected_books is called; the selector returns
\* when a download succeeded, and waits for Enter when none did.
Download(confirmed, success) ==
  /\ bs_phase = "menu"
  /\ IF selected_books = {} \/ FilteredSelection(filtered_books, selected_books) = <<>>
        \/ ~confirmed
     THEN /\ bs_phase' = "press_enter"
          /\ UNCHANGED << download_requested, bs_returned >>
     ELSE /\ download_requested' = BookIdsOf(FilteredSelection(filtered_books, selected_books))
          /\ success \in 0..Len(download_requested')
          /\ IF success > 0
             THEN /\ bs_phase' = "returned"
                  /\ bs_returned' = download_requested'
             ELSE /\ bs_phase' = "download_failed"
                  /\ UNCHANGED bs_returned
  /\ UNCHANGED << shelf, filtered_books, current_page, selected_books >>
  /\ UNCHANGED nonChooseVars

\* lines 155-156 and 167-168: Enter, and the loop goes on
PressEnter ==
  /\ bs_phase \in {"press_enter", "download_failed"}
  /\ bs_phase' = "menu"
  /\ UNCHANGED << shelf, filtered_books, current_page, selected_books,
                  download_requested, bs_returned >>
  /\ UNCHANGED nonChooseVars

\* lines 169-171
NextPage ==
  /\ bs_phase = "menu"
  /\ current_page < max_pages_shown(filtered_books) - 1
  /\ current_page' = current_page + 1
  /\ UNCHANGED << bs_phase, shelf, filtered_books, selected_books,
                  download_requested, bs_returned >>
  /\ UNCHANGED nonChooseVars

\* lines 172-174
PrevPage ==
  /\ bs_phase = "menu"
  /\ current_page > 0
  /\ current_page' = current_page - 1
  /\ UNCHANGED << bs_phase, shelf, filtered_books, selected_books,
                  download_requested, bs_returned >>
  /\ UNCHANGED nonChooseVars

\* lines 175-190
Goto(page_number) ==
  /\ bs_phase = "menu"
  /\ 1 <= page_number
  /\ page_number <= max_pages_shown(filtered_books)
  /\ current_page' = page_number - 1
  /\ UNCHANGED << bs_phase, shelf, filtered_books, selected_books,
                  download_requested, bs_returned >>
  /\ UNCHANGED nonChooseVars

\* lines 191-193
SelectPage ==
  /\ bs_phase = "menu"
  /\ selected_books' =
       selected_books \cup {book.id : book \in ElementsOf(display_books(filtered_books, current_page))}
  /\ UNCHANGED << bs_phase, shelf, filtered_books, current_page,
                  download_requested, bs_returned >>
  /\ UNCHANGED nonChooseVars

\* lines 194-196
UnselectPage ==
  /\ bs_phase = "menu"
  /\ selected_books' =
       selected_books \ {book.id : book \in ElementsOf(display_books(filtered_books, current_page))}
  /\ UNCHANGED << bs_phase, shelf, filtered_books, current_page,
                  download_requested, bs_returned >>
  /\ UNCHANGED nonChooseVars

\* lines 197-198
ClearSelection ==
  /\ bs_phase = "menu"
  /\ selected_books' = {}
  /\ UNCHANGED << bs_phase, shelf, filtered_books, current_page,
                  download_requested, bs_returned >>
  /\ UNCHANGED nonChooseVars

\* lines 199-203
ClearFilter ==
  /\ bs_phase = "menu"
  /\ filtered_books' = shelf
  /\ current_page' = 0
  /\ UNCHANGED << bs_phase, shelf, selected_books, download_requested, bs_returned >>
  /\ UNCHANGED nonChooseVars

\* lines 206-207 and 577-726: m.  The books whose key no book of the other
\* server has replace the selection when there are some and the answer is y.
SelectMissing(target_keys) ==
  /\ bs_phase = "menu"
  /\ \E book \in ElementsOf(shelf) : create_book_key(book) \notin target_keys
  /\ selected_books' =
       {book.id : book \in {b \in ElementsOf(shelf) : create_book_key(b) \notin target_keys}}
  /\ UNCHANGED << bs_phase, shelf, filtered_books, current_page,
                  download_requested, bs_returned >>
  /\ UNCHANGED nonChooseVars

\* lines 208-216
Filter(search_term) ==
  /\ bs_phase = "menu"
  /\ filtered_books' = _filter_books_with_term(shelf, search_term)
  /\ current_page' = 0
  /\ UNCHANGED << bs_phase, shelf, selected_books, download_requested, bs_returned >>
  /\ UNCHANGED nonChooseVars

\* lines 217-218
SelectRange(parts) ==
  /\ bs_phase = "menu"
  /\ selected_books' = _select_by_range(parts, 1, filtered_books, selected_books)
  /\ UNCHANGED << bs_phase, shelf, filtered_books, current_page,
                  download_requested, bs_returned >>
  /\ UNCHANGED nonChooseVars

\* lines 219-228
Toggle(book_num) ==
  /\ bs_phase = "menu"
  /\ 0 <= book_num
  /\ book_num < Len(filtered_books)
  /\ selected_books' =
       IF filtered_books[book_num + 1].id \in selected_books
       THEN selected_books \ {filtered_books[book_num + 1].id}
       ELSE selected_books \cup {filtered_books[book_num + 1].id}
  /\ UNCHANGED << bs_phase, shelf, filtered_books, current_page,
                  download_requested, bs_returned >>
  /\ UNCHANGED nonChooseVars

InitChoose ==
  /\ CompareIdle /\ NormIdle /\ PagesIdle /\ MissingIdle /\ SelectedIdle /\ MenuIdle
  /\ ChooseInit(Shelves(MaxShelf), "start")

NextChoose ==
  \/ OpenSelector
  \/ Quit
  \/ \E confirmed \in BOOLEAN, success \in 0..MaxShelf : Download(confirmed, success)
  \/ PressEnter
  \/ NextPage
  \/ PrevPage
  \/ \E page_number \in 0..MaxShelf : Goto(page_number)
  \/ SelectPage
  \/ UnselectPage
  \/ ClearSelection
  \/ ClearFilter
  \/ \E target_keys \in SUBSET {create_book_key(book) : book \in ElementsOf(shelf)} : SelectMissing(target_keys)
  \/ \E search_term \in FilterTerms : Filter(search_term)
  \/ \E parts \in RangeInputs : SelectRange(parts)
  \/ \E book_num \in 0..MaxShelf : Toggle(book_num)

SpecChoose == InitChoose /\ [][NextChoose]_vars

\* downloader.download_selected_books was called in this step
DownloadIssued ==
  /\ bs_phase = "menu"
  /\ \/ bs_phase' = "download_failed"
     \/ bs_phase' = "returned" /\ bs_returned' # <<>>

\* C28: whenever the download command calls the downloader, the books it
\* hands over are the books whose id is in selected_books, as many as the
\* line "Selected: N books" counts.
C28_DownloadsSelection ==
  [][DownloadIssued =>
       /\ {download_requested'[k] : k \in 1..Len(download_requested')} = selected_books
       /\ Len(download_requested') = selected_count]_vars

\* the two items of one-item catalogs are in a match group of some tier
MatchedInSomeTier ==
  \E g \in AllGroups(result.match_details) :
    g.source_items = DOMAIN source_books /\ g.target_items = DOMAIN target_books

\* C29: for a source catalog of one item and a target catalog of one item,
\* debug_book_matching on the two items returns TRUE exactly when
\* compare_servers reports the two items matched in some tier.
C29_DebugAgreesWithCompare ==
  (/\ result.returned
   /\ Cardinality(DOMAIN source_books) = 1
   /\ Cardinality(DOMAIN target_books) = 1) =>
    \A x \in DOMAIN source_books, y \in DOMAIN target_books :
      DebugMatches(Books[source_books[x]], Books[target_books[y]]) <=> MatchedInSomeTier

(***************************************************************************)
(* The menus shown after a comparison: main of src/server_diff.py and      *)
(* run_server_comparison of src/run.py, and the download_book calls of     *)
(* ServerDiff.download_missing_books.                                      *)
(***************************************************************************)
\* the first n items of the catalog of a side, as a list of missing items
MissingList(side, n) == [k \in 1..n |-> <<side, k>>]

\* the results a comparison may show: items of the source catalog missing in
\* the target, items of the target catalog missing in the source, and the
\* number of matched books
ResultsShown ==
  { [missing_in_target |-> MissingList("source", n), missing_in_source |-> MissingList("target", m),
     total_common |-> c] : n \in 0..MaxBooks, m \in 0..MaxBooks, c \in 0..1 }

\* src/server_diff.py lines 525-548: download_missing_books(server,
\* missing_books) up to its loop; it returns at once without books or without
\* libraries on the server
StartDownload(server, missing_books, libraries) ==
  /\ menu_server' = server
  /\ menu_books' = missing_books
  /\ menu_index' = 0
  /\ menu_phase' = IF missing_books = <<>> \/ ~libraries THEN "done" ELSE "downloading"
  /\ UNCHANGED << entry, menu_results, requests >>

\* the menu ends with no download
LeaveMenu ==
  /\ menu_phase' = "done"
  /\ UNCHANGED << entry, menu_results, menu_server, menu_books, menu_index, requests >>

\* src/server_diff.py lines 1246-1278: the menu of main
MainMenu(choice, libraries) ==
  /\ menu_phase = "menu"
  /\ entry = "server_diff.main"
  /\ IF menu_results.missing_in_target # <<>>
     THEN CASE choice = "1" -> StartDownload("source", menu_results.missing_in_target, libraries)
            [] choice = "2" -> StartDownload("target", menu_results.missing_in_target, libraries)
            [] OTHER -> LeaveMenu
     ELSE LeaveMenu
  /\ UNCHANGED nonMenuVars

\* src/run.py lines 286-316: the options offered
MenuOptions(shown) ==
  (IF shown.missing_in_target # <<>>
   THEN {"browse_missing_in_target", "download_missing_in_target"} ELSE {})
    \cup (IF shown.missing_in_source # <<>>
          THEN {"browse_missing_in_source", "download_missing_in_source"} ELSE {})
    \cup {"view_matches", "exit"}

\* src/run.py lines 284-385: the menu of run_server_comparison; browsing
\* opens the book selector and ends the menu, viewing the matches shows the
\* menu again
RunMenu(action_key, libraries) ==
  /\ menu_phase = "menu"
  /\ entry = "run.run_server_comparison"
  /\ IF \/ menu_results.missing_in_target # <<>>
        \/ menu_results.missing_in_source # <<>>
        \/ menu_results.total_common > 0
     THEN /\ action_key \in MenuOptions(menu_results)
          /\ CASE action_key = "download_missing_in_target" ->
                    StartDownload("source", menu_results.missing_in_target, libraries)
               [] action_key = "download_missing_in_source" ->
                    StartDownload("target", menu_results.missing_in_source, libraries)
               [] action_key = "view_matches" -> UNCHANGED menuVars
               [] OTHER -> LeaveMenu
     ELSE LeaveMenu
  /\ UNCHANGED nonMenuVars

\* src/server_diff.py lines 570-584: one turn of the loop of
\* download_missing_books, server.download_book(book, library_id)
DownloadMissingBook ==
  /\ menu_phase = "downloading"
  /\ requests' = requests \cup {[server |-> menu_server, id |-> menu_books[menu_index + 1]]}
  /\ menu_index' = menu_index + 1
  /\ menu_phase' = IF menu_index' = Len(menu_books) THEN "done" ELSE "downloading"
  /\ UNCHANGED << entry, menu_results, menu_server, menu_books >>
  /\ UNCHANGED nonMenuVars

MenuEntries == {"server_diff.main", "run.run_server_comparison"}
MenuChoices == {"1", "2", "3", "4"}
MenuKeys ==
  {"browse_missing_in_target", "download_missing_in_target", "browse_missing_in_source",
   "download_missing_in_source", "view_matches", "exit"}

InitMenu ==
  /\ CompareIdle /\ NormIdle /\ PagesIdle /\ MissingIdle /\ SelectedIdle /\ ChooseIdle
  /\ MenuInit(MenuEntries, ResultsShown, "menu")

NextMenu ==
  \/ \E choice \in MenuChoices, libraries \in BOOLEAN : MainMenu(choice, libraries)
  \/ \E action_key \in MenuKeys, libraries \in BOOLEAN : RunMenu(action_key, libraries)
  \/ DownloadMissingBook

SpecMenu == InitMenu /\ [][NextMenu]_vars

\* C30: every download_book call made for a missing item goes to the server
\* from whose catalog the item was fetched: items of missing_in_target are
\* asked of the source server, items of missing_in_source of the target
\* server, whichever menu called download_missing_books.
C30_DownloadsFromOwningServer == \A r \in requests : r.server = r.id[1]

====
